---- MODULE Spec2Model ----
(***************************************************************************)
(* Optimal-execution simulator: execution strategies, Heston volatility,   *)
(* market simulator, impact/cost model and the Monte Carlo engine.         *)
(*                                                                         *)
(* Numbers.  The program computes in IEEE-754 doubles.  Here order sizes   *)
(* are exact rationals [n, d], and the market quantities are fixed-point   *)
(* integers whose unit is named next to each scale.  Library functions     *)
(* (sinh, sqrt, pow, exp) are tabulated or computed on those grids.        *)
(***************************************************************************)
EXTENDS Integers, Sequences, FiniteSets, TLC

VARIABLES
  tj,   \* SpecTraj: one call of generate_trajectory, its arguments and result;
        \* SpecProfile: the configured order laid out and worked through
  hs,   \* SpecHeston: one HestonVolatility object and what its calls did;
        \* SpecRegime: one RegimeDetector object and what its calls did
  cm,   \* SpecCost: one call of CostModel.compute_costs, its arguments and result;
        \* SpecBps: one CostBreakdown, its total and total_bps
  np_random, \* the process-wide generator of numpy: [seed, pos]
  sc,   \* SpecScenario: two runs of one MarketSimulator, with and without a scenario;
        \* SpecLife: one MarketSimulator through inject_scenario, step and reset
  sh,   \* SpecSim: the MarketSimulator objects alive in one process
  mc    \* SpecMC: one call of run_monte_carlo

vars == <<tj, hs, cm, np_random, sc, sh, mc>>

---------------------------------------------------------------------------
(* Integer helpers *)

Abs(x) == IF x < 0 THEN -x ELSE x

Max(a, b) == IF a >= b THEN a ELSE b

Min(a, b) == IF a <= b THEN a ELSE b

RECURSIVE Gcd(_, _)
Gcd(a, b) == IF b = 0 THEN a ELSE Gcd(b, a % b)

(* floor(a * b / c) for c > 0, computed without forming a * b:
   MulQR(a, b, c) = <<q, r>> with a * b = q * c + r and 0 <= r < c, a, b >= 0 *)
RECURSIVE MulQR(_, _, _)
MulQR(a, b, c) ==
  IF b = 0 THEN <<0, 0>>
  ELSE LET h == MulQR(a, b \div 2, c)
           add == IF b % 2 = 1 THEN a ELSE 0
           r == 2 * h[2] + (add % c)
       IN  <<2 * h[1] + (add \div c) + (r \div c), r % c>>

MulDiv(a, b, c) ==
  LET qr == MulQR(Abs(a), Abs(b), c)
  IN  IF (a < 0) = (b < 0) \/ a = 0 \/ b = 0
      THEN qr[1]
      ELSE -(qr[1] + (IF qr[2] > 0 THEN 1 ELSE 0))

---------------------------------------------------------------------------
(* Exact rationals: [n |-> numerator, d |-> denominator], d > 0, lowest terms *)

Rat(n, d) ==
  LET s == IF d < 0 THEN -1 ELSE 1
      g == Gcd(Abs(n), Abs(d))
  IN  [n |-> s * (n \div g), d |-> s * (d \div g)]

RInt(k) == [n |-> k, d |-> 1]

RZero == RInt(0)

RNeg(x) == [n |-> -x.n, d |-> x.d]

RAbs(x) == [n |-> Abs(x.n), d |-> x.d]

RAdd(x, y) ==
  LET g == Gcd(x.d, y.d)
      l == (x.d \div g) * y.d
  IN  Rat(x.n * (l \div x.d) + y.n * (l \div y.d), l)

RSub(x, y) == RAdd(x, RNeg(y))

RMul(x, y) ==
  LET g1 == Gcd(Abs(x.n), y.d)
      g2 == Gcd(Abs(y.n), x.d)
  IN  [n |-> (x.n \div g1) * (y.n \div g2), d |-> (x.d \div g2) * (y.d \div g1)]

RInv(x) == IF x.n < 0 THEN [n |-> -x.d, d |-> -x.n] ELSE [n |-> x.d, d |-> x.n]

RDiv(x, y) == RMul(x, RInv(y))

RLt(x, y) == RSub(x, y).n < 0

RLe(x, y) == RSub(x, y).n <= 0

RMax(x, y) == IF RLe(y, x) THEN x ELSE y

RMin(x, y) == IF RLe(x, y) THEN x ELSE y

(* Python's sum() of the entries lo..hi, 0 for none.  The rationals are
   exact, so the order of the additions does not change the sum; the range
   is halved to keep the evaluation shallow for long sequences *)
RECURSIVE RSumFrom(_, _, _)
RSumFrom(s, lo, hi) ==
  IF lo > hi THEN RZero
  ELSE IF lo = hi THEN s[lo]
  ELSE RAdd(RSumFrom(s, lo, (lo + hi) \div 2), RSumFrom(s, (lo + hi) \div 2 + 1, hi))

RSum(s) == RSumFrom(s, 1, Len(s))

(* floor of a rational *)
RFloor(x) == x.n \div x.d

---------------------------------------------------------------------------
(* np.sinh: tabulated at steps of 1/SinhGrid, in units of 1/SinhScale,     *)
(* linear between the grid points.  SinhTable[k + 1] = sinh(k / 40) * 1000 *)

SinhGrid == 40

SinhScale == 1000

SinhTable ==
  << 0, 25, 50, 75, 100, 125, 151, 176, 201, 227,
     253, 278, 305, 331, 357, 384, 411, 438, 465, 493,
     521, 549, 578, 607, 637, 666, 697, 727, 759, 790,
     822, 855, 888, 922, 956, 991, 1027, 1063, 1099, 1137,
     1175, 1214, 1254, 1294, 1336, 1378, 1421, 1465, 1509, 1555,
     1602, 1650, 1698, 1748, 1799, 1851, 1904, 1959, 2014, 2071,
     2129, 2189, 2250, 2312, 2376, 2441, 2507, 2576, 2646, 2717,
     2790, 2865, 2942, 3021, 3101, 3184, 3268, 3355, 3443, 3534,
     3627, 3722, 3820, 3919, 4022, 4127, 4234, 4344, 4457, 4573,
     4691, 4813, 4937, 5064, 5195, 5329, 5466, 5607, 5751, 5899,
     6050, 6205, 6365, 6528, 6695, 6866, 7042, 7222, 7406, 7595,
     7789, 7988, 8192, 8401, 8615, 8835, 9060, 9290, 9527, 9769,
     10018, 10273, 10534, 10802, 11076, 11358, 11647, 11943, 12246, 12557,
     12876, 13203, 13538, 13882, 14234, 14595, 14965, 15345, 15734, 16133,
     16543, 16962, 17392, 17833, 18285, 18749, 19224, 19712, 20211, 20724,
     21249, 21787, 22339, 22905, 23486, 24081, 24691, 25317, 25958, 26616,
     27290, 27981, 28690, 29417, 30162, 30926, 31709, 32512, 33336, 34180,
     35046, 35933, 36843, 37776, 38733, 39714, 40719, 41750, 42808, 43892,
     45003, 46143, 47311, 48509, 49737, 50996, 52288, 53612, 54969, 56361,
     57788, 59251, 60751, 62289, 63866, 65483, 67141, 68841, 70584, 72371,
     74203, 76082, 78008, 79983, 82008, 84084, 86213, 88395, 90633, 92928,
     95281, 97693, 100166, 102702, 105302, 107968, 110701, 113503, 116377, 119323,
     122344, 125441, 128617, 131873, 135211, 138634, 142144, 145742, 149432, 153215,
     157094, 161071, 165148, 169329, 173616, 178011, 182517, 187138, 191875, 196733,
     201713, 206820, 212055, 217424, 222928, 228571, 234358, 240290, 246374, 252611,
     259005, 265562, 272285, 279178, 286245, 293492, 300922, 308540, 316350, 324359,
     332570, 340989, 349621, 358472, 367547, 376851, 386392, 396173, 406202, 416485,
     427029, 437839, 448923, 460288, 471940, 483887, 496137, 508697, 521574, 534778,
     548316, 562197, 576429, 591021, 605983, 621324, 637053, 653180, 669715, 686669,
     704052, 721875, 740150, 758887, 778098, 797796, 817992, 838699, 859931, 881701,
     904021, 926906, 950371, 974430, 999098, 1024390, 1050323, 1076912, 1104174, 1132126,
     1160786, 1190171, 1220301, 1251193, 1282867, 1315343, 1348641, 1382782, 1417787, 1453679,
     1490479, 1528210, 1566897, 1606564, 1647234, 1688934, 1731689, 1775527, 1820475, 1866561,
     1913813, 1962261, 2011936, 2062868, 2115090, 2168634, 2223533, 2279822, 2337536, 2396711,
     2457384, 2519593, 2583377, 2648776, 2715830, 2784581, 2855073, 2927350, 3001456, 3077438,
     3155344, 3235222, 3317122, 3401095, 3487194, 3575473, 3665987, 3758792, 3853946, 3951509,
     4051542, 4154107, 4259269, 4367093, 4477646, 4590998, 4707220, 4826384, 4948564, 5073838,
     5202283, 5333979, 5469010, 5607458, 5749412, 5894959, 6044190, 6197200, 6354083, 6514937,
     6679863, 6848965, 7022347, 7200119, 7382391, 7569277, 7760894, 7957362, 8158804, 8365345,
     8577114, 8794245, 9016872, 9245136, 9479177, 9719144, 9965185, 10217455, 10476111, 10741315,
     11013233 >>

Sinh(x) ==
  LET k  == (SinhGrid * x.n) \div x.d
      fn == SinhGrid * x.n - k * x.d
  IN  IF fn = 0
      THEN Rat(SinhTable[k + 1], SinhScale)
      ELSE Rat(SinhTable[k + 1] * x.d + fn * (SinhTable[k + 2] - SinhTable[k + 1]),
               SinhScale * x.d)

---------------------------------------------------------------------------
(* Execution strategies: generate_trajectory(total_size, T)                *)

(* the absolute tolerance 1e-6 of the "ensure exact sum" guards *)
TolDen == 1000000

Tol == Rat(1, TolDen)

Naive_generate_trajectory(total_size, T) ==
  [t \in 1..T |-> IF t = 1 THEN total_size ELSE RZero]

TWAP_floor_division(total_size, T) ==
  LET per_period == RInt(RFloor(RDiv(total_size, RInt(T))))
  IN  [t \in 1..T |-> per_period]

TWAP_generate_trajectory(total_size, T) ==
  LET per_period == RDiv(total_size, RInt(T))
  IN  [t \in 1..T |-> per_period]

(* np.linspace(0, 1, T): T points i / (T - 1); the single point 0 when T = 1 *)
linspace01(T) ==
  [i \in 1..T |-> IF T = 1 THEN RZero ELSE Rat(i - 1, T - 1)]

forecast_flat_profile(T) == [i \in 1..T |-> RInt(1)]

forecast_volume_profile(T) ==
  LET t == linspace01(T)
  IN  [i \in 1..T |-> RAdd(RInt(1), RAbs(RSub(t[i], Rat(1, 2))))]

(* the rescaling both VWAP and Almgren-Chriss end with *)
Rescale(trajectory, total_size, needPositive) ==
  LET actual_sum == RSum(trajectory)
  IN  IF RLt(Tol, RAbs(RSub(actual_sum, total_size)))
         /\ (needPositive => actual_sum.n > 0)
      THEN [i \in 1..Len(trajectory) |->
              RDiv(RMul(trajectory[i], total_size), actual_sum)]
      ELSE trajectory

VWAP_generate_trajectory(total_size, T) ==
  LET profile == forecast_volume_profile(T)
      psum    == RSum(profile)
      weights == [i \in 1..T |-> RDiv(profile[i], psum)]
      trajectory == [i \in 1..T |-> RMul(total_size, weights[i])]
  IN  Rescale(trajectory, total_size, FALSE)

UrgencyMin == Rat(1, 10)

UrgencyMax == RInt(10)

ClampUrgency_at_half(u) == RMax(UrgencyMin, RMin(u, RDiv(UrgencyMax, RInt(2))))

ClampUrgency(u) == RMax(UrgencyMin, RMin(u, UrgencyMax))

(* the loop of AlmgrenChrissStrategy.generate_trajectory, period t = 0 .. T - 1 *)
RECURSIVE AC_loop(_, _, _, _, _)
AC_loop(total_size, T, urgency, t, trajectory) ==
  IF t > T - 1 THEN trajectory
  ELSE IF t = T - 1
  THEN AC_loop(total_size, T, urgency, t + 1,
               Append(trajectory, RSub(total_size, RSum(trajectory))))
  ELSE LET kappa == RDiv(urgency, RInt(T))
           sinh_kappa_T == Sinh(urgency)
           X_t == RDiv(RMul(total_size, Sinh(RMul(kappa, RInt(T - t)))), sinh_kappa_T)
           X_t_plus_1 ==
             RDiv(RMul(total_size, Sinh(RMul(kappa, RInt(T - t - 1)))), sinh_kappa_T)
           n_t == RSub(X_t, X_t_plus_1)
       IN  AC_loop(total_size, T, urgency, t + 1,
                   Append(trajectory, RMax(RZero, n_t)))

AlmgrenChriss_generate_trajectory(self_urgency, total_size, T) ==
  LET urgency == ClampUrgency(self_urgency)
  IN  Rescale(AC_loop(total_size, T, urgency, 0, <<>>), total_size, TRUE)

StrategyNames == {"Naive", "TWAP", "VWAP", "Almgren-Chriss"}

(* dispatch on the strategy object: its name and, for Almgren-Chriss, its urgency *)
generate_trajectory(strategy, total_size, T) ==
  CASE strategy.name = "Naive" -> Naive_generate_trajectory(total_size, T)
    [] strategy.name = "TWAP" -> TWAP_generate_trajectory(total_size, T)
    [] strategy.name = "VWAP" -> VWAP_generate_trajectory(total_size, T)
    [] OTHER -> AlmgrenChriss_generate_trajectory(strategy.urgency, total_size, T)

---------------------------------------------------------------------------
(* Fixed-point grids of the market quantities *)

(* volatility in units of 1e-5; a variance in units of 1e-10 *)
VolScale == 100000

(* a Gaussian increment dW in units of 1e-3 *)
DWScale == 1000

(* sigma_v in units of 1e-1 *)
SigmaScale == 10

(* a period is 1/390 of a trading day *)
DtDen == 390

(* np.sqrt on the variance grid: the floor of the square root, which takes a
   variance in units of 1e-10 to a volatility in units of 1e-5 *)
RECURSIVE ISqrtIter(_, _, _)
ISqrtIter(n, lo, hi) ==
  IF lo >= hi THEN lo
  ELSE LET mid == (lo + hi + 1) \div 2
       IN  IF mid * mid <= n THEN ISqrtIter(n, mid, hi) ELSE ISqrtIter(n, lo, mid - 1)

ISqrt(n) == ISqrtIter(n, 0, Min(n, 46340))

---------------------------------------------------------------------------
(* HestonVolatility: [v, kappa, theta, sigma_v].  rho is stored and never read. *)

HestonVolatility(v0, kappa, theta, sigma_v) ==
  [v |-> v0, kappa |-> kappa, theta |-> theta, sigma_v |-> sigma_v]

(* sigma_v * sqrt(v_plus) * dW on the variance grid: the units of sigma_v
   and dW against those of a volatility *)
HestonNoiseUnit == VolScale \div (SigmaScale * DWScale)

(* dv of HestonVolatility.step for the increment dW, with dt = 1 / DtDen:
   kappa * (theta - v_plus) * dt + sigma_v * sqrt(v_plus) * dW *)
HestonDv(h, dW) ==
  LET v_plus == Max(h.v, 0)
  IN  MulDiv(h.kappa, h.theta - v_plus, DtDen)
        + h.sigma_v * ISqrt(v_plus) * dW * HestonNoiseUnit

HestonNoFloor(h, dW) == h.v + HestonDv(h, dW)

(* the variance HestonVolatility.step stores: max(self.v + dv, 0) *)
HestonNewV(h, dW) == Max(h.v + HestonDv(h, dW), 0)

(* the arguments HestonVolatility.step hands to np.sqrt *)
HestonSqrtArgs(h, dW) == {Max(h.v, 0), HestonNewV(h, dW)}

---------------------------------------------------------------------------
(* ImpactModel and CostModel.  Prices and costs are in units of 1e-4, a     *)
(* participation rate and x ** alpha in units of 1e-4, gamma and eta in     *)
(* units of 1e-2, a volume in whole shares.                                 *)

PriceScale == 10000

PartScale == 10000

CoefScale == 100

DecayScale == 10000

MarketState(time, mid_price, bid, ask, depth, volume, volatility, regime) ==
  [time |-> time, mid_price |-> mid_price, bid |-> bid, ask |-> ask,
   bid_depth |-> depth, ask_depth |-> depth, volume |-> volume,
   volatility |-> volatility, regime |-> regime]

(* MarketState.spread *)
spread(state) == state.ask - state.bid

CostBreakdown(spread_cost, temporary, permanent, opportunity, adverse_selection) ==
  [spread |-> spread_cost, temporary |-> temporary, permanent |-> permanent,
   opportunity |-> opportunity, adverse_selection |-> adverse_selection]

(* x ** 0.65 and x ** 0.42 (the two configured exponents), tabulated at
   PowXs and linear in between *)
PowXs ==
  << 0, 1, 2, 5, 10, 20, 50, 100, 200, 500, 1000, 2000, 5000, 10000, 20000, 50000, 100000, 200000, 500000, 1000000, 2000000, 5000000, 10000000, 20000000, 50000000, 100000000, 200000000, 500000000, 1000000000 >>

Pow65Ys ==
  << 0, 25, 39, 72, 112, 176, 319, 501, 786, 1427, 2239, 3513, 6373, 10000, 15692, 28466, 44668, 70092, 127154, 199526, 313090, 567977, 891251, 1398523, 2537059, 3981072, 6246971, 11332625, 17782794 >>

Pow42Ys ==
  << 0, 209, 280, 411, 550, 735, 1080, 1445, 1934, 2842, 3802, 5087, 7474, 10000, 13379, 19659, 26303, 35191, 51709, 69183, 92562, 136009, 181970, 243463, 357740, 478630, 640372, 940952, 1258925 >>

RECURSIVE InterpSeg(_, _, _)
InterpSeg(xs, x, i) ==
  IF i >= Len(xs) \/ x < xs[i + 1] THEN i ELSE InterpSeg(xs, x, i + 1)

Interp(xs, ys, x) ==
  LET i == InterpSeg(xs, x, 1)
  IN  IF i >= Len(xs) THEN ys[Len(xs)]
      ELSE ys[i] + MulDiv(ys[i + 1] - ys[i], x - xs[i], xs[i + 1] - xs[i])

Pow(x, alpha) == Interp(PowXs, IF alpha = 65 THEN Pow65Ys ELSE Pow42Ys, x)

(* (1 - exp(-x)) / x at x = ln(2) * k / 10, k = 1 .. 200, in units of 1e-4 *)
DecayTable ==
  << 9661, 9338, 9029, 8733, 8451, 8181, 7923, 7676, 7440, 7213,
     6997, 6789, 6591, 6400, 6218, 6042, 5874, 5713, 5559, 5410,
     5267, 5131, 4999, 4872, 4751, 4634, 4521, 4413, 4308, 4208,
     4111, 4018, 3928, 3841, 3758, 3677, 3599, 3524, 3451, 3381,
     3314, 3248, 3185, 3124, 3064, 3007, 2951, 2898, 2846, 2795,
     2746, 2699, 2653, 2608, 2565, 2523, 2482, 2443, 2404, 2367,
     2331, 2295, 2261, 2228, 2195, 2163, 2133, 2103, 2073, 2045,
     2017, 1990, 1964, 1938, 1913, 1888, 1865, 1841, 1819, 1796,
     1775, 1753, 1733, 1712, 1693, 1673, 1654, 1636, 1618, 1600,
     1582, 1565, 1549, 1533, 1517, 1501, 1486, 1470, 1456, 1441,
     1427, 1413, 1400, 1386, 1373, 1360, 1348, 1335, 1323, 1311,
     1299, 1288, 1276, 1265, 1254, 1243, 1233, 1222, 1212, 1202,
     1192, 1182, 1173, 1163, 1154, 1145, 1136, 1127, 1118, 1110,
     1101, 1093, 1085, 1077, 1069, 1061, 1053, 1045, 1038, 1030,
     1023, 1016, 1009, 1002, 995, 988, 981, 975, 968, 962,
     955, 949, 943, 937, 931, 925, 919, 913, 907, 902,
     896, 891, 885, 880, 874, 869, 864, 859, 854, 849,
     844, 839, 834, 829, 824, 820, 815, 810, 806, 801,
     797, 793, 788, 784, 780, 776, 771, 767, 763, 759,
     755, 751, 748, 744, 740, 736, 732, 729, 725, 721 >>

ImpactModel(temp_gamma, temp_alpha, perm_eta, perm_beta, temp_half_life) ==
  [temp_gamma |-> temp_gamma, temp_alpha |-> temp_alpha, perm_eta |-> perm_eta,
   perm_beta |-> perm_beta, temp_half_life |-> temp_half_life]

(* abs(size) / volume on the participation grid; size a rational, volume > 0 *)
Participation(size, volume) == MulDiv(Abs(size.n), PartScale, size.d * volume)

(* x * abs(size), rounded down to the grid of x *)
TimesSize(x, size) == MulDiv(x, Abs(size.n), size.d)

temporary_impact_instantaneous(im, trade_size, volume, volatility, price) ==
  IF trade_size.n = 0 \/ volume = 0 THEN 0
  ELSE LET participation == Participation(trade_size, volume)
           impact_per_share ==
             MulDiv(MulDiv(im.temp_gamma * Pow(participation, im.temp_alpha), price,
                           CoefScale * PartScale),
                    volatility, VolScale)
       IN  TimesSize(impact_per_share, trade_size)

(* decay_factor for `remaining` periods: 1.0 when the rate is infinite
   (temp_half_life <= 0) or nothing remains *)
decay_factor(im, remaining) ==
  IF im.temp_half_life > 0 /\ remaining > 0
  THEN LET k == (10 * remaining) \div im.temp_half_life
       IN  IF k = 0 THEN DecayScale ELSE DecayTable[Min(k, Len(DecayTable))]
  ELSE DecayScale

(* the loop of temporary_impact_with_decay from period t (1-based) on;
   [raised, value]: volumes[t] raises IndexError when the states are fewer
   than the trade sizes and a later size is not zero *)
RECURSIVE temp_loop(_, _, _, _, _)
temp_loop(im, trade_sizes, states, t, total_impact) ==
  IF t > Len(trade_sizes) THEN [raised |-> FALSE, value |-> total_impact]
  ELSE IF trade_sizes[t].n = 0
  THEN temp_loop(im, trade_sizes, states, t + 1, total_impact)
  ELSE IF t > Len(states) THEN [raised |-> TRUE, value |-> 0]
  ELSE LET inst_impact ==
             temporary_impact_instantaneous(im, trade_sizes[t], states[t].volume,
                                            states[t].volatility, states[t].mid_price)
           remaining == Len(trade_sizes) - (t - 1)
       IN  temp_loop(im, trade_sizes, states, t + 1,
                     total_impact
                       + MulDiv(inst_impact, decay_factor(im, remaining), DecayScale))

temporary_impact_with_decay(im, trade_sizes, states) ==
  IF Len(trade_sizes) = 0 THEN [raised |-> FALSE, value |-> 0]
  ELSE temp_loop(im, trade_sizes, states, 1, 0)

permanent_impact(im, total_size, daily_volume, price) ==
  IF total_size.n = 0 \/ daily_volume = 0 THEN 0
  ELSE LET participation == Participation(total_size, daily_volume)
           impact_per_share ==
             MulDiv(im.perm_eta * Pow(participation, im.perm_beta), price,
                    CoefScale * PartScale)
       IN  TimesSize(impact_per_share, total_size)

(* zip(trajectory, states) stops at the shorter of the two *)
ZipLen(trajectory, states) == Min(Len(trajectory), Len(states))

(* sum(abs(n) * s.spread / 2 for n, s in zip(trajectory, states)) *)
RECURSIVE spread_cost_from(_, _, _, _)
spread_cost_from(trajectory, states, i, acc) ==
  IF i > ZipLen(trajectory, states) THEN acc
  ELSE spread_cost_from(trajectory, states, i + 1,
                        acc + MulDiv(spread(states[i]), Abs(trajectory[i].n),
                                     2 * trajectory[i].d))

RECURSIVE volume_sum(_, _)
volume_sum(states, i) ==
  IF i > Len(states) THEN 0 ELSE states[i].volume + volume_sum(states, i + 1)

(* np.mean([s.volume for s in states]) * len(states) *)
avg_daily_volume(states) ==
  RFloor(RMul(Rat(volume_sum(states, 1), Len(states)), RInt(Len(states))))

(* exec_prices as <<sum, count>>: int(abs(n_t)) copies of the ask for a buy,
   of the bid for a sell *)
RECURSIVE exec_prices(_, _, _, _)
exec_prices(trajectory, states, i, acc) ==
  IF i > ZipLen(trajectory, states) THEN acc
  ELSE LET shares == RFloor(RAbs(trajectory[i]))
           px == IF trajectory[i].n > 0 THEN states[i].ask ELSE states[i].bid
       IN  exec_prices(trajectory, states, i + 1,
                       IF trajectory[i].n = 0 THEN acc
                       ELSE <<acc[1] + px * shares, acc[2] + shares>>)

(* the average over the sizes themselves, fractions of a share included *)
vwap_of_fractional_fills(trajectory, states, arrival_price) ==
  LET periods == 1..ZipLen(trajectory, states)
      px(i) == IF trajectory[i].n > 0 THEN states[i].ask ELSE states[i].bid
      count == RSum([i \in periods |-> RAbs(trajectory[i])])
      paid == RSum([i \in periods |-> RMul(RAbs(trajectory[i]), RInt(px(i)))])
  IN  IF count.n > 0 THEN RDiv(paid, count) ELSE RInt(arrival_price)

realised_vwap(trajectory, states, arrival_price) ==
  LET ep == exec_prices(trajectory, states, 1, <<0, 0>>)
  IN  IF ep[2] > 0 THEN Rat(ep[1], ep[2]) ELSE RInt(arrival_price)

(* floor(x * y) of two rationals, computed without forming the product of
   the numerators *)
RMulFloor(x, y) == MulDiv(x.n, y.n, x.d * y.d)

opportunity_cost_unfloored(vwap, arrival_price, total_shares) ==
  RMulFloor(RSub(vwap, RInt(arrival_price)), total_shares)

(* max(0, implementation_shortfall) with
   implementation_shortfall = (vwap - arrival_price) * total_shares *)
opportunity_cost(vwap, arrival_price, total_shares) ==
  Max(0, RMulFloor(RSub(vwap, RInt(arrival_price)), total_shares))

(* post_trade_drift = (final_price - vwap) * total_shares: max(0, -drift)
   for a buy, max(0, drift) for a sell *)
adverse_selection(vwap, final_price, total_shares) ==
  IF total_shares.n > 0
  THEN Max(0, RMulFloor(RNeg(RSub(RInt(final_price), vwap)), total_shares))
  ELSE Max(0, RMulFloor(RSub(RInt(final_price), vwap), total_shares))

zero_guard_all_entries(trajectory) ==
  \A i \in 1..Len(trajectory) : trajectory[i].n = 0

(* total_shares == 0 *)
zero_guard(trajectory) == RSum(trajectory).n = 0

(* CostModel.compute_costs: [raised, costs] *)
compute_costs(im, trajectory, states, arrival_price) ==
  LET total_shares == RSum(trajectory)
      temp == temporary_impact_with_decay(im, trajectory, states)
  IN  IF zero_guard(trajectory)
      THEN [raised |-> FALSE, costs |-> CostBreakdown(0, 0, 0, 0, 0)]
      ELSE IF temp.raised
      THEN [raised |-> TRUE, costs |-> CostBreakdown(0, 0, 0, 0, 0)]
      ELSE LET spread_cost == spread_cost_from(trajectory, states, 1, 0)
               perm_impact == permanent_impact(im, total_shares,
                                               avg_daily_volume(states), arrival_price)
               vwap == realised_vwap(trajectory, states, arrival_price)
               final_price == IF Len(states) > 0 THEN states[Len(states)].mid_price
                              ELSE arrival_price
           IN  [raised |-> FALSE,
                costs |-> CostBreakdown(spread_cost, temp.value, perm_impact,
                            opportunity_cost(vwap, arrival_price, total_shares),
                            adverse_selection(vwap, final_price, total_shares))]

---------------------------------------------------------------------------
(* Random numbers.  np.random is one process-wide generator: its state is   *)
(* the seed it was last given and the number of draws since, and a draw is  *)
(* a fixed function of the two.  np.random.RandomState(seed) is a generator *)
(* of its own.                                                              *)

(* a standard normal draw in units of 1e-1 *)
ZScale == 10

ZTable == <<-15, -8, -3, 0, 3, 8, 15>>

StdNormal(seed, pos) == ZTable[((seed * 5 + pos * 3 + seed * pos) % Len(ZTable)) + 1]

(* a uniform draw on [0, 1) in units of 1e-1 *)
UScale == 10

Uniform01(seed, k) == (seed * 7 + k * 3 + seed * k) % UScale

(* seed=None *)
NoSeed == -1

(* np.random.seed(seed) *)
np_random_seed(seed) == [seed |-> seed, pos |-> 0]

(* sqrt(390) in units of 1e-3 *)
Sqrt390Milli == 19748

(* np.random.normal(0, np.sqrt(dt)) for the standard draw z, dt = 1/390 *)
NormalSqrtDt(z) == MulDiv(z * DWScale, 1000, ZScale * Sqrt390Milli)

---------------------------------------------------------------------------
(* RegimeDetector *)

RegimeDetector ==
  [window_size |-> 20, vol_thresholds |-> <<25, 75>>, spread_thresholds |-> <<25, 75>>,
   volume_thresholds |-> <<25, 75>>, vol_history |-> <<>>, spread_history |-> <<>>,
   volume_history |-> <<>>]

(* deque(maxlen).append *)
list_append(history, x, maxlen) == Append(history, x)

DequeAppend(history, x, maxlen) ==
  IF Len(history) >= maxlen THEN Append(Tail(history), x) ELSE Append(history, x)

(* scipy.stats.percentileofscore(history, value), kind 'rank' *)
percentileofscore(history, value) ==
  LET left == Cardinality({i \in 1..Len(history) : history[i] < value})
      right == Cardinality({i \in 1..Len(history) : history[i] <= value})
      plus1 == IF left < right THEN 1 ELSE 0
  IN  Rat((left + right + plus1) * 50, Len(history))

regime_percentile(value, history) ==
  IF Len(history) < 2 THEN RInt(50) ELSE percentileofscore(history, value)

(* RegimeDetector._bin: the axis is found by comparing the thresholds with
   each axis' thresholds by value, volatility first *)
regime_bin(rd, percentile, thresholds) ==
  IF RLt(percentile, RInt(thresholds[1]))
  THEN IF thresholds = rd.vol_thresholds THEN "low"
       ELSE IF thresholds = rd.spread_thresholds THEN "tight" ELSE "thin"
  ELSE IF RLt(RInt(thresholds[2]), percentile)
  THEN IF thresholds = rd.vol_thresholds THEN "high"
       ELSE IF thresholds = rd.spread_thresholds THEN "wide" ELSE "heavy"
  ELSE IF thresholds = rd.vol_thresholds THEN "medium" ELSE "normal"

Regime(volatility, spread_level, volume) ==
  [volatility |-> volatility, spread |-> spread_level, volume |-> volume]

(* Regime.composite *)
composite(regime) == regime.volatility \o "_" \o regime.spread \o "_" \o regime.volume

(* RegimeDetector.classify: [rd, regime] *)
classify(rd, volatility, spread_ratio, volume) ==
  LET rd1 == [rd EXCEPT
                !.vol_history = DequeAppend(@, volatility, rd.window_size),
                !.spread_history = DequeAppend(@, spread_ratio, rd.window_size),
                !.volume_history = DequeAppend(@, volume, rd.window_size)]
  IN  IF Len(rd1.vol_history) < 5
      THEN [rd |-> rd1, regime |-> Regime("medium", "normal", "normal")]
      ELSE [rd |-> rd1,
            regime |->
              Regime(regime_bin(rd1, regime_percentile(volatility, rd1.vol_history),
                                rd1.vol_thresholds),
                     regime_bin(rd1, regime_percentile(spread_ratio, rd1.spread_history),
                                rd1.spread_thresholds),
                     regime_bin(rd1, regime_percentile(volume, rd1.volume_history),
                                rd1.volume_thresholds))]

---------------------------------------------------------------------------
(* MarketSimulator.  base_vol and volatilities in units of 1e-5, prices,    *)
(* spreads and S0 in units of 1e-4, volumes and depths in shares, scenario  *)
(* multipliers in units of 1e-1, spread / price in units of 1e-8, time in   *)
(* periods of dt = 1/390.                                                   *)

MultScale == 10

SpreadRatioScale == 100000000

NoScenario == [type |-> "None"]

(* dict.get(key, default) *)
Get(dict, key, default) == IF key \in DOMAIN dict THEN dict[key] ELSE default

(* MarketSimulator.__init__ without the seeding of np.random *)
MarketSimulator(S0, base_vol, base_spread, base_depth, base_adv, impact_gamma, impact_alpha) ==
  LET vol_per_minute == MulDiv(base_vol, 1000, Sqrt390Milli)
  IN  [S0 |-> S0, price |-> S0, base_vol |-> base_vol, base_spread |-> base_spread,
       base_depth |-> base_depth, base_adv |-> base_adv, impact_gamma |-> impact_gamma,
       impact_alpha |-> impact_alpha, vol_per_minute |-> vol_per_minute,
       vol_model |-> HestonVolatility(vol_per_minute * vol_per_minute, 3,
                                      vol_per_minute * vol_per_minute, 3),
       regime_detector |-> RegimeDetector, current_time |-> 0, current_minute |-> 0,
       scenario |-> NoScenario, scenario_duration |-> 0, cumulative_perm_impact |-> 0]

(* base_adv / 390 * (1 + abs(minute / 390 - 0.5)) *)
intraday_volume_pattern(sim, minute_of_day) ==
  MulDiv(sim.base_adv, DtDen + Abs(minute_of_day - DtDen \div 2), DtDen * DtDen)

(* base_spread * (1.2 - 0.4 * abs(minute / 390 - 0.5)) *)
intraday_spread_pattern(sim, minute_of_day) ==
  MulDiv(sim.base_spread, 6 * DtDen - 2 * Abs(minute_of_day - DtDen \div 2), 5 * DtDen)

(* whether step applies the scenario's multipliers *)
scenario_set(sim) == sim.scenario.type # "None"

scenario_active(sim) == sim.scenario.type # "None" /\ sim.scenario_duration > 0

(* the drift of step: for a momentum scenario drift_rate * price * dt, with
   drift_rate in units of 1e-4 *)
step_drift(sim) ==
  IF sim.scenario.type # "None" /\ Get(sim.scenario, "type", "None") = "momentum"
  THEN MulDiv(sim.price, Get(sim.scenario, "drift_rate", 0), 10000 * DtDen)
  ELSE 0

Sign(size) == IF size.n > 0 THEN 1 ELSE IF size.n < 0 THEN -1 ELSE 0

(* MarketSimulator.step(dt = 1/390, external_order_size) where z_vol and
   z_price are the two standard normal draws it takes, in this order:
   [sim, state] *)
sim_step(sim, external_order_size, z_vol, z_price) ==
  LET current_time == sim.current_time + 1
      current_minute == sim.current_minute + 1
      seasonal_volume == intraday_volume_pattern(sim, current_minute % DtDen)
      seasonal_spread == intraday_spread_pattern(sim, current_minute % DtDen)
      v == HestonNewV(sim.vol_model, NormalSqrtDt(z_vol))
      heston_vol == ISqrt(v)
      active == scenario_active(sim)
      current_vol == IF active
                     THEN MulDiv(heston_vol, Get(sim.scenario, "vol_multiplier", MultScale),
                                 MultScale)
                     ELSE heston_vol
      base_spread == IF active
                     THEN MulDiv(seasonal_spread,
                                 Get(sim.scenario, "spread_multiplier", MultScale), MultScale)
                     ELSE seasonal_spread
      expected_volume == IF active
                         THEN MulDiv(seasonal_volume,
                                     Get(sim.scenario, "volume_multiplier", MultScale),
                                     MultScale)
                         ELSE seasonal_volume
      scenario_duration == IF active THEN sim.scenario_duration - 1
                           ELSE sim.scenario_duration
      dW == NormalSqrtDt(z_price)
      drift == step_drift(sim)
      dP == MulDiv(sim.S0 - sim.price, 1, 2 * DtDen)
              + MulDiv(MulDiv(sim.price, current_vol, VolScale), dW, DWScale)
              + drift
      price1 == sim.price + dP
      participation == Participation(external_order_size, Max(expected_volume, 1))
      impact == IF external_order_size.n # 0
                THEN MulDiv(MulDiv(sim.impact_gamma * Pow(participation, sim.impact_alpha),
                                   price1, CoefScale * PartScale),
                            current_vol, VolScale)
                ELSE 0
      price == price1 + Sign(external_order_size) * impact
      spread0 == base_spread + MulDiv(3 * base_spread, current_vol, 2 * sim.vol_per_minute)
      spread1 == IF external_order_size.n # 0
                 THEN spread0 + MulDiv(spread0, participation, 2 * PartScale)
                 ELSE spread0
      depth == MulDiv(sim.base_depth, 2 * PartScale, 2 * PartScale + participation)
      cl == classify(sim.regime_detector, current_vol,
                     MulDiv(spread1, SpreadRatioScale, price), expected_volume)
  IN  [sim |-> [sim EXCEPT !.current_time = current_time,
                           !.current_minute = current_minute,
                           !.vol_model.v = v,
                           !.scenario_duration = scenario_duration,
                           !.price = price,
                           !.regime_detector = cl.rd],
       state |-> MarketState(current_time, price, price - spread1 \div 2,
                             price - spread1 \div 2 + spread1, depth, expected_volume,
                             current_vol, composite(cl.regime))]

FlashCrash ==
  [type |-> "flash_crash", vol_multiplier |-> 100, spread_multiplier |-> 50,
   volume_multiplier |-> 3, duration |-> 10]

Momentum == [type |-> "momentum", drift_rate |-> 5, duration |-> 9999]

LiquidityDrought ==
  [type |-> "liquidity_drought", volume_multiplier |-> 1, spread_multiplier |-> 20,
   duration |-> 30]

(* MarketSimulator.inject_scenario *)
inject_scenario_clearing_on_other(sim, scenario_type) ==
  IF scenario_type = "flash_crash"
  THEN [sim EXCEPT !.scenario = FlashCrash, !.scenario_duration = FlashCrash.duration]
  ELSE IF scenario_type = "momentum"
  THEN [sim EXCEPT !.scenario = Momentum, !.scenario_duration = Momentum.duration]
  ELSE IF scenario_type = "liquidity_drought"
  THEN [sim EXCEPT !.scenario = LiquidityDrought,
                   !.scenario_duration = LiquidityDrought.duration]
  ELSE [sim EXCEPT !.scenario = NoScenario, !.scenario_duration = 0]

inject_scenario(sim, scenario_type) ==
  IF scenario_type = "flash_crash"
  THEN [sim EXCEPT !.scenario = FlashCrash, !.scenario_duration = FlashCrash.duration]
  ELSE IF scenario_type = "momentum"
  THEN [sim EXCEPT !.scenario = Momentum, !.scenario_duration = Momentum.duration]
  ELSE IF scenario_type = "liquidity_drought"
  THEN [sim EXCEPT !.scenario = LiquidityDrought,
                   !.scenario_duration = LiquidityDrought.duration]
  ELSE sim

(* MarketSimulator.reset *)
reset_keeps_scenario(sim) ==
  [sim EXCEPT !.price = sim.S0,
              !.vol_model = HestonVolatility(sim.vol_per_minute * sim.vol_per_minute, 3,
                                             sim.vol_per_minute * sim.vol_per_minute, 3),
              !.regime_detector = RegimeDetector,
              !.current_time = 0, !.current_minute = 0, !.cumulative_perm_impact = 0]

sim_reset(sim) ==
  [sim EXCEPT !.price = sim.S0,
              !.vol_model = HestonVolatility(sim.vol_per_minute * sim.vol_per_minute, 3,
                                             sim.vol_per_minute * sim.vol_per_minute, 3),
              !.regime_detector = RegimeDetector,
              !.current_time = 0, !.current_minute = 0, !.scenario = NoScenario,
              !.scenario_duration = 0, !.cumulative_perm_impact = 0]

(* the state of np.random after the two draws of one step *)
np_random_after_step(rng) == [rng EXCEPT !.pos = @ + 2]

(* MarketSimulator.step drawing from the generator rng: [sim, state] *)
step_from_price_draw_first(rng, sim, external_order_size) ==
  sim_step(sim, external_order_size, StdNormal(rng.seed, rng.pos + 1),
           StdNormal(rng.seed, rng.pos))

step_from(rng, sim, external_order_size) ==
  sim_step(sim, external_order_size, StdNormal(rng.seed, rng.pos),
           StdNormal(rng.seed, rng.pos + 1))

---------------------------------------------------------------------------
(* BaseStrategy.execute, MonteCarloSimulator.  Costs in basis points in     *)
(* units of 1e-1, notionals in dollars (exact), perturbations in units of   *)
(* 1e-3.                                                                    *)

BpsScale == 10

MilliScale == 1000

NaN == [nan |-> TRUE]

(* np.mean of a list of integers: exact, NaN for the empty list *)
RECURSIVE SumInts(_, _)
SumInts(xs, i) == IF i > Len(xs) THEN 0 ELSE xs[i] + SumInts(xs, i + 1)

np_sum_undivided(xs) == IF Len(xs) = 0 THEN NaN ELSE RInt(SumInts(xs, 1))

np_mean(xs) == IF Len(xs) = 0 THEN NaN ELSE Rat(SumInts(xs, 1), Len(xs))

(* np.std: the square root of the mean squared deviation from the mean, on
   the grid of xs *)
RECURSIVE SumSquaredDev(_, _, _)
SumSquaredDev(xs, total, i) ==
  IF i > Len(xs) THEN 0
  ELSE (Len(xs) * xs[i] - total) * (Len(xs) * xs[i] - total) + SumSquaredDev(xs, total, i + 1)

np_std(xs) ==
  ISqrt(SumSquaredDev(xs, SumInts(xs, 1), 1) \div (Len(xs) * Len(xs) * Len(xs)))

(* np.percentile(xs, q): linear interpolation between the two neighbours of
   position q / 100 * (n - 1) in the sorted list *)
np_percentile(xs, q) ==
  LET sorted == SortSeq(xs, LAMBDA a, b : a < b)
      position == Rat(q * (Len(xs) - 1), 100)
      lo == RFloor(position)
      hi == Min(lo + 1, Len(xs) - 1)
  IN  RAdd(RInt(sorted[lo + 1]),
           RMul(RSub(position, RInt(lo)), RInt(sorted[hi + 1] - sorted[lo + 1])))

np_median(xs) == np_percentile(xs, 50)

(* CostBreakdown.total *)
total_with_opportunity(costs) ==
  costs.spread + costs.temporary + costs.permanent + costs.opportunity
    + costs.adverse_selection

total(costs) == costs.spread + costs.temporary + costs.permanent + costs.adverse_selection

(* arrival_price * size, in dollars *)
Notional(arrival_price, size) == RMul(Rat(arrival_price, PriceScale), size)

(* CostBreakdown.total_bps(notional) *)
total_bps(costs, notional) ==
  IF notional.n > 0 THEN MulDiv(total(costs), BpsScale * notional.d, notional.n) ELSE 0

(* the metrics of execute: abs(n) / s.volume over the periods with volume *)
participations(trajectory, states) ==
  LET idx == {i \in 1..ZipLen(trajectory, states) : states[i].volume > 0}
      f[i \in 0..ZipLen(trajectory, states)] ==
        IF i = 0 THEN <<>>
        ELSE IF i \in idx THEN Append(f[i - 1], Participation(trajectory[i], states[i].volume))
        ELSE f[i - 1]
  IN  f[ZipLen(trajectory, states)]

(* BaseStrategy.execute after its loop: the costs, the metrics and the
   ExecutionResult *)
execution_result(strategy, trajectory, states, arrival_price, total_size, im, simulation_id) ==
  LET costs == compute_costs(im, trajectory, states, arrival_price).costs
  IN  [strategy |-> strategy.name, trajectory |-> trajectory, market_states |-> states,
       costs |-> costs,
       metrics |->
         [total_cost_bps |-> total_bps(costs, Notional(arrival_price, total_size)),
          avg_participation |-> np_mean(participations(trajectory, states)),
          execution_periods |->
            Cardinality({i \in 1..Len(trajectory) : trajectory[i].n # 0}),
          arrival_price |-> arrival_price,
          final_price |-> IF Len(states) > 0 THEN states[Len(states)].mid_price
                          ELSE arrival_price],
       simulation_id |-> simulation_id, arrival_price |-> arrival_price]

(* config.base_seed *)
base_seed == 42

(* MonteCarloConfig with the order size and the number of periods given *)
MonteCarloConfig(order_size, execution_periods) ==
  [base_price |-> 1000000, base_vol |-> 2000, base_spread |-> 200, base_depth |-> 10000,
   base_adv |-> 1000000, temp_gamma |-> 10, temp_alpha |-> 65, perm_eta |-> 3,
   perm_beta |-> 42, temp_impact_half_life |-> 10, order_size |-> order_size,
   execution_periods |-> execution_periods, vol_perturbation |-> 300,
   spread_perturbation |-> 500, depth_perturbation |-> 400]

(* 1.0 + rng.uniform(-p, p), the k-th draw of RandomState(seed) *)
perturbation(seed, k, p) == MilliScale - p + (2 * p * Uniform01(seed, k)) \div UScale

(* MonteCarloSimulator.perturb_market_params *)
perturb_market_params(config, seed) ==
  [S0 |-> config.base_price,
   base_vol |-> MulDiv(config.base_vol, perturbation(seed, 0, config.vol_perturbation),
                       MilliScale),
   base_spread |-> MulDiv(config.base_spread,
                          perturbation(seed, 1, config.spread_perturbation), MilliScale),
   base_depth |-> MulDiv(config.base_depth,
                         perturbation(seed, 2, config.depth_perturbation), MilliScale),
   base_adv |-> config.base_adv, impact_gamma |-> config.temp_gamma,
   impact_alpha |-> config.temp_alpha, seed |-> seed]

(* the seed of trial simulation_id *)
trial_seed(simulation_id) == base_seed + simulation_id

(* MarketSimulator.__init__: if seed is not None: np.random.seed(seed) *)
seeding_skipped(rng, seed) == rng

simulator_seeding(rng, seed) == IF seed # NoSeed THEN np_random_seed(seed) ELSE rng

(* the MarketSimulator built from market_params, without the seeding of
   np.random *)
simulator_of(market_params) ==
  MarketSimulator(market_params.S0, market_params.base_vol, market_params.base_spread,
                  market_params.base_depth, market_params.base_adv,
                  market_params.impact_gamma, market_params.impact_alpha)

(* if scenario: market_sim.inject_scenario(scenario) *)
with_scenario(market_sim, scenario) ==
  IF scenario # "None" THEN inject_scenario(market_sim, scenario) ELSE market_sim

(* ImpactModel(temp_gamma=config.temp_gamma, ...) *)
impact_model_of(config) ==
  ImpactModel(config.temp_gamma, config.temp_alpha, config.perm_eta, config.perm_beta,
              config.temp_impact_half_life)

(* the loop of execute, "for n_t in trajectory": the size of the period
   after those whose states are collected *)
size_from_the_end(trajectory, states) == trajectory[Len(trajectory) - Len(states)]

next_size(trajectory, states) == trajectory[Len(states) + 1]

(* the two standard normal draws one call of step takes from rng *)
draws_of_step(rng) == <<StdNormal(rng.seed, rng.pos), StdNormal(rng.seed, rng.pos + 1)>>

(* (component / notional) * 10000: raises ZeroDivisionError when the
   notional is 0; [raised, value] *)
component_bps(component, notional) ==
  IF notional.n = 0 THEN [raised |-> TRUE, value |-> 0]
  ELSE [raised |-> FALSE,
        value |-> IF notional.n > 0
                  THEN MulDiv(component, BpsScale * notional.d, notional.n)
                  ELSE -MulDiv(component, BpsScale * notional.d, -notional.n)]

(* np.mean([(r.costs.<component> / (r.arrival_price * order_size)) * 10000
   for r in all_results]) *)
component_mean(config, all_results, component) ==
  LET each == [i \in 1..Len(all_results) |->
                 component_bps(all_results[i].costs[component],
                               Notional(all_results[i].arrival_price,
                                        RInt(config.order_size)))]
  IN  IF \E i \in 1..Len(each) : each[i].raised THEN [raised |-> TRUE, value |-> NaN]
      ELSE [raised |-> FALSE, value |-> np_mean([i \in 1..Len(each) |-> each[i].value])]

(* the aggregation of one strategy in run_monte_carlo: [raised, value] *)
aggregate(config, strategy, n_simulations, costs_bps, all_results) ==
  LET mean_spread == component_mean(config, all_results, "spread")
      mean_temp == component_mean(config, all_results, "temporary")
      mean_perm == component_mean(config, all_results, "permanent")
      mean_opp == component_mean(config, all_results, "opportunity")
      mean_adv == component_mean(config, all_results, "adverse_selection")
  IN  [raised |-> mean_spread.raised \/ mean_temp.raised \/ mean_perm.raised
                    \/ mean_opp.raised \/ mean_adv.raised,
       value |->
         [strategy |-> strategy.name, n_simulations |-> n_simulations,
          costs_bps |-> costs_bps, mean_cost |-> np_mean(costs_bps),
          std_cost |-> np_std(costs_bps), median_cost |-> np_median(costs_bps),
          percentile_5 |-> np_percentile(costs_bps, 5),
          percentile_95 |-> np_percentile(costs_bps, 95),
          risk_adjusted_savings |-> RZero,
          value_at_risk_95 |-> np_percentile(costs_bps, 95),
          mean_spread |-> mean_spread.value, mean_temp_impact |-> mean_temp.value,
          mean_perm_impact |-> mean_perm.value, mean_opportunity |-> mean_opp.value,
          mean_adverse |-> mean_adv.value, all_results |-> all_results]]

(* results_by_strategy[name] = value *)
DictSet_keeping_first(dict, key, value) ==
  [k \in DOMAIN dict \cup {key} |-> IF k \in DOMAIN dict THEN dict[k] ELSE value]

DictSet(dict, key, value) ==
  [k \in DOMAIN dict \cup {key} |-> IF k = key THEN value ELSE dict[k]]

EmptyDict == [k \in {} |-> 0]

(* what the pass against the TWAP benchmark leaves in the field of one
   other strategy *)
savings_sign_flipped(twap_mean, mc_result) ==
  IF mc_result.std_cost > 0
  THEN RDiv(RSub(mc_result.mean_cost, twap_mean), RInt(mc_result.std_cost))
  ELSE mc_result.risk_adjusted_savings

risk_adjusted_savings(twap_mean, mc_result) ==
  IF mc_result.std_cost > 0
  THEN RDiv(RSub(twap_mean, mc_result.mean_cost), RInt(mc_result.std_cost))
  ELSE mc_result.risk_adjusted_savings

(* the pass of run_monte_carlo against the TWAP benchmark *)
risk_adjust(results_by_strategy) ==
  IF "TWAP" \in DOMAIN results_by_strategy
  THEN [name \in DOMAIN results_by_strategy |->
          IF name # "TWAP"
          THEN [results_by_strategy[name] EXCEPT
                  !.risk_adjusted_savings =
                     risk_adjusted_savings(results_by_strategy["TWAP"].mean_cost,
                                           results_by_strategy[name])]
          ELSE results_by_strategy[name]]
  ELSE results_by_strategy

---------------------------------------------------------------------------
(* The value each variable keeps in the specifications that do not use it *)

DefaultUrgency == RInt(3)

NoTrajectory == <<>>

TrajIdle ==
  [strategy |-> [name |-> "Naive", urgency |-> DefaultUrgency], total_size |-> RInt(1),
   T |-> 1, trajectory |-> NoTrajectory, done |-> TRUE]

NoSqrt == {}

HestonIdle ==
  [h |-> HestonVolatility(0, 0, 0, 0), steps |-> 0, sqrt_args |-> NoSqrt, raw |-> 0,
   out |-> 0]

(* MonteCarloConfig: temp_gamma, temp_alpha, perm_eta, perm_beta, half-life *)
ConfigImpactModel == ImpactModel(10, 65, 3, 42, 10)

NoCosts == [raised |-> FALSE, costs |-> CostBreakdown(0, 0, 0, 0, 0)]

CostIdle ==
  [im |-> ConfigImpactModel, trajectory |-> <<>>, states |-> <<>>, arrival_price |-> 0,
   result |-> NoCosts, done |-> TRUE]

RngIdle == np_random_seed(0)

NoSim == [S0 |-> 0]

NoRun == [sim |-> NoSim, states |-> <<>>]

ScenarioIdle ==
  [seed |-> 0, pattern |-> "none", order |-> <<>>, k |-> 1, stepping |-> FALSE,
   runs |-> <<>>]

(* a simulator that is not constructed yet; alone is the same simulator
   drawing from a generator of its own instead of np.random *)
NoSlot ==
  [built |-> FALSE, seed |-> NoSeed, sim |-> NoSim, states |-> <<>>, alone |-> NoSim,
   alone_states |-> <<>>, own_draws |-> 0, injected |-> FALSE]

SimIdle == <<NoSlot, NoSlot>>

NoMapping == [none |-> TRUE]

(* no call of run_single_simulation under way *)
NoTrial == [active |-> FALSE]

MCIdle ==
  [config |-> MonteCarloConfig(0, 0), strategies |-> <<>>, n_simulations |-> 0,
   scenario |-> "None", k |-> 1, all_results |-> <<>>, costs_bps |-> <<>>,
   results_by_strategy |-> EmptyDict, pc |-> "returned", returned |-> EmptyDict,
   trial |-> NoTrial, trials |-> <<>>]

---------------------------------------------------------------------------
(* Specification SpecTraj: generate_trajectory applied to bounded inputs   *)

MaxT == 4

MaxTotal == 3

(* urgencies below, inside and above the clamp, zero and negative included *)
TrajUrgencies == {RInt(-2), RZero, Rat(1, 20), DefaultUrgency, RInt(12)}

TrajStrategies ==
  [name : {"Naive", "TWAP", "VWAP"}, urgency : {DefaultUrgency}]
    \cup [name : {"Almgren-Chriss"}, urgency : TrajUrgencies]

(* total sizes > 0: the halves up to MaxTotal *)
TrajTotals == {Rat(k, 2) : k \in 1..(2 * MaxTotal)}

InitTraj ==
  /\ hs = HestonIdle
  /\ cm = CostIdle
  /\ np_random = RngIdle
  /\ sc = ScenarioIdle
  /\ sh = SimIdle
  /\ mc = MCIdle
  /\ tj \in [strategy : TrajStrategies, total_size : TrajTotals, T : 1..MaxT,
          trajectory : {NoTrajectory}, done : {FALSE}]

GenerateTrajectory ==
  /\ ~tj.done
  /\ tj' = [tj EXCEPT !.trajectory = generate_trajectory(tj.strategy, tj.total_size, tj.T),
                      !.done = TRUE]
  /\ UNCHANGED <<hs, cm, np_random, sc, sh, mc>>

NextTraj == GenerateTrajectory

SpecTraj == InitTraj /\ [][NextTraj]_vars

\* C1: for each of the four strategies, every totalSize > 0 and every
\* horizon >= 1, generate_trajectory returns exactly `horizon` per-period
\* sizes whose sum differs from totalSize by at most 1e-6.
C1_TrajectoryLengthAndSum ==
  tj.done =>
    /\ Len(tj.trajectory) = tj.T
    /\ RLe(RAbs(RSub(RSum(tj.trajectory), tj.total_size)), Tol)

C1_Witness ==
  /\ tj.done
  /\ tj.strategy.name = "Almgren-Chriss"
  /\ tj.T = 3
  /\ RLt(tj.trajectory[3], tj.trajectory[1])
  /\ RLt(RZero, tj.trajectory[3])

(* C13: an out-of-range urgency is clamped silently: for any urgency u,
   u <= 0 and u > 10 included, AlmgrenChrissStrategy.generate_trajectory
   returns a trajectory, the one of a strategy built with urgency
   min(max(u, 0.1), 10) *)
C13_UrgencyClamped ==
  (tj.done /\ tj.strategy.name = "Almgren-Chriss") =>
    /\ Len(tj.trajectory) = tj.T
    /\ LET u == RMin(RMax(tj.strategy.urgency, Rat(1, 10)), RInt(10))
       IN  /\ RLe(Rat(1, 10), u) /\ RLe(u, RInt(10))
           /\ tj.trajectory
                = generate_trajectory([name |-> "Almgren-Chriss", urgency |-> u],
                                      tj.total_size, tj.T)
           /\ tj.trajectory = Rescale(AC_loop(tj.total_size, tj.T, u, 0, <<>>),
                                      tj.total_size, TRUE)

(* an urgency above 10 on a horizon where the urgency shapes the trajectory *)
C13_Witness ==
  /\ tj.done
  /\ tj.strategy.name = "Almgren-Chriss"
  /\ RLt(RInt(10), tj.strategy.urgency)
  /\ tj.T >= 3
  /\ RLt(tj.trajectory[2], tj.trajectory[1])
  /\ RLt(RZero, tj.trajectory[2])

---------------------------------------------------------------------------
(* Specification SpecHeston: one HestonVolatility object, any parameters,   *)
(* any increments                                                          *)

MaxHestonSteps == 3

(* initial variances >= 0, in units of 1e-10; 10256 is (0.02 / sqrt(390))^2 *)
HestonV0s == {0, 100, 10256}

HestonKappas == {3, 900}

HestonThetas == {0, 10256}

HestonSigmas == {0, 3}

(* increments dW in units of 1e-3; sqrt(dt) is about 51 *)
HestonDWs == {-150, -51, 0, 51, 150}

InitHeston ==
  /\ tj = TrajIdle
  /\ cm = CostIdle
  /\ np_random = RngIdle
  /\ sc = ScenarioIdle
  /\ sh = SimIdle
  /\ mc = MCIdle
  /\ \E v0 \in HestonV0s, kappa \in HestonKappas, theta \in HestonThetas,
        sigma_v \in HestonSigmas :
       hs = [h |-> HestonVolatility(v0, kappa, theta, sigma_v), steps |-> 0,
             sqrt_args |-> NoSqrt, raw |-> v0, out |-> 0]

(* HestonVolatility.step(dt = 1/390) with the increment dW *)
HestonStep ==
  /\ hs.steps < MaxHestonSteps
  /\ \E dW \in HestonDWs :
       LET v == HestonNewV(hs.h, dW)
       IN  hs' = [h |-> [hs.h EXCEPT !.v = v], steps |-> hs.steps + 1,
                  sqrt_args |-> {Max(hs.h.v, 0), v},
                  raw |-> hs.h.v + HestonDv(hs.h, dW),
                  out |-> IF v >= 0 THEN ISqrt(v) ELSE -1]
  /\ UNCHANGED <<tj, cm, np_random, sc, sh, mc>>

(* HestonVolatility.get_volatility(): sqrt(max(v, 0)), no state change *)
HestonGetVolatility ==
  /\ hs' = [hs EXCEPT !.sqrt_args = {Max(hs.h.v, 0)}, !.out = ISqrt(Max(hs.h.v, 0))]
  /\ UNCHANGED <<tj, cm, np_random, sc, sh, mc>>

NextHeston == HestonStep \/ HestonGetVolatility

SpecHeston == InitHeston /\ [][NextHeston]_vars

\* C8: for any parameterisation with non-negative initial variance and any
\* sequence of step calls with any increments, the internal variance v is
\* >= 0 after every step, so neither step nor get_volatility takes the
\* square root of a negative number.
C8_VarianceNonNegative ==
  /\ hs.h.v >= 0
  /\ \A a \in hs.sqrt_args : a >= 0

\* a step whose unfloored variance would be negative has been taken
C8_Witness ==
  /\ hs.steps >= 2
  /\ hs.raw < 0
  /\ hs.h.v = 0
  /\ hs.h.theta > 0
  /\ hs.h.sigma_v > 0

---------------------------------------------------------------------------
(* Specification SpecCost: compute_costs applied to bounded inputs          *)

MaxCostLen == 2

(* buys, sells, fractions of a share and idle periods *)
CostSizes == {Rat(-2, 1), RInt(-1), Rat(-1, 2), RZero, RInt(1), Rat(5, 2)}

CostState(mid_price, spr, volume, volatility) ==
  MarketState(1, mid_price, mid_price - spr \div 2, mid_price + spr \div 2, 10000,
              volume, volatility, "medium_normal_normal")

(* states with spread, volume, volatility and prices >= 0 *)
CostStates ==
  { CostState(1000000, 200, 3000, 101),
    CostState(1010000, 400, 0, 101),
    CostState(990000, 0, 2000, 0),
    CostState(1000000, 200, 1, 1013) }

CostArrivals == {990000, 1000000, 1005000}

CostImpactModels == {ConfigImpactModel, ImpactModel(10, 65, 3, 42, 0)}

(* the states are as many as the trajectory's entries, or one fewer *)
InitCost ==
  /\ tj = TrajIdle
  /\ hs = HestonIdle
  /\ np_random = RngIdle
  /\ sc = ScenarioIdle
  /\ sh = SimIdle
  /\ mc = MCIdle
  /\ \E L \in 0..MaxCostLen :
       \E M \in {L, Max(L - 1, 0)} :
         cm \in [im : CostImpactModels, trajectory : [1..L -> CostSizes],
                 states : [1..M -> CostStates], arrival_price : CostArrivals,
                 result : {NoCosts}, done : {FALSE}]

ComputeCosts ==
  /\ ~cm.done
  /\ cm' = [cm EXCEPT !.result = compute_costs(cm.im, cm.trajectory, cm.states,
                                               cm.arrival_price),
                      !.done = TRUE]
  /\ UNCHANGED <<tj, hs, np_random, sc, sh, mc>>

NextCost == ComputeCosts

SpecCost == InitCost /\ [][NextCost]_vars

\* C7: for any trajectory and market-state sequence of equal length (buy,
\* sell or mixed-sign sizes, states with non-negative spread, volume,
\* volatility and prices) and any arrival price, each of the five components
\* of the CostBreakdown compute_costs returns is >= 0.
C7_ComponentsNonNegative ==
  (cm.done /\ Len(cm.states) = Len(cm.trajectory)) =>
    /\ ~cm.result.raised
    /\ cm.result.costs.spread >= 0
    /\ cm.result.costs.temporary >= 0
    /\ cm.result.costs.permanent >= 0
    /\ cm.result.costs.opportunity >= 0
    /\ cm.result.costs.adverse_selection >= 0

\* a mixed-sign trajectory bought below the arrival price: the shortfall is
\* negative and the opportunity cost is floored at 0
C7_Witness ==
  /\ cm.done
  /\ Len(cm.states) = 2
  /\ Len(cm.trajectory) = 2
  /\ cm.trajectory[1].n > 0
  /\ cm.trajectory[2].n < 0
  /\ RSum(cm.trajectory).n > 0
  /\ RLt(realised_vwap(cm.trajectory, cm.states, cm.arrival_price), RInt(cm.arrival_price))
  /\ cm.result.costs.opportunity = 0
  /\ cm.result.costs.temporary > 0
  /\ cm.result.costs.spread > 0

\* C10: a zero-size or all-zero trajectory is not an error: compute_costs
\* returns the CostBreakdown with all five components 0 whenever the sum of
\* the trajectory is zero, without computing any other term and without
\* raising.
C10_ZeroSumAllZero ==
  (cm.done /\ RSum(cm.trajectory).n = 0) =>
    /\ ~cm.result.raised
    /\ cm.result.costs = CostBreakdown(0, 0, 0, 0, 0)

\* a buy and a sell that cancel, with fewer states than entries: any later
\* term would have cost something or raised
C10_Witness ==
  /\ cm.done
  /\ Len(cm.trajectory) = 2
  /\ Len(cm.states) = 1
  /\ cm.trajectory[1].n # 0
  /\ RSum(cm.trajectory).n = 0
  /\ spread(cm.states[1]) > 0
  /\ cm.result = NoCosts

---------------------------------------------------------------------------
(* SpecScenario: one MarketSimulator built twice with the same arguments    *)
(* and seed, once left alone and once with a scenario injected right after  *)
(* construction, and stepped with the same order sizes, one run after the   *)
(* other as run_single_simulation does.                                     *)

MaxPeriods == 12

ScenarioSeeds == {42, 43, 44}

ScenarioPatterns == {"none", "buy", "sell", "alternate"}

(* the order size of period t *)
PatternSize(pattern, t) ==
  IF pattern = "buy" THEN RInt(400)
  ELSE IF pattern = "sell" THEN RInt(-250)
  ELSE IF pattern = "alternate" /\ t % 2 = 1 THEN Rat(1001, 2)
  ELSE RZero

(* np.random before anything seeds it: seeded by the operating system *)
EntropySeeds == {7, 8}

(* MarketSimulator() with the defaults of its constructor *)
DefaultSimulator == MarketSimulator(1000000, 2000, 200, 10000, 1000000, 10, 65)

InitScenario ==
  /\ tj = TrajIdle
  /\ hs = HestonIdle
  /\ cm = CostIdle
  /\ sh = SimIdle
  /\ mc = MCIdle
  /\ \E e \in EntropySeeds : np_random = np_random_seed(e)
  /\ \E seed \in ScenarioSeeds, pattern \in ScenarioPatterns,
        order \in {<<"None", "flash_crash">>, <<"flash_crash", "None">>} :
       sc = [seed |-> seed, pattern |-> pattern, order |-> order, k |-> 1,
             stepping |-> FALSE, runs |-> <<>>]

(* MarketSimulator(seed=seed), then inject_scenario when a scenario is given *)
ScenarioConstruct ==
  /\ sc.k <= Len(sc.order)
  /\ ~sc.stepping
  /\ np_random' = np_random_seed(sc.seed)
  /\ sc' = [sc EXCEPT
              !.stepping = TRUE,
              !.runs = Append(@, [sim |-> IF sc.order[sc.k] = "None" THEN DefaultSimulator
                                         ELSE inject_scenario(DefaultSimulator, sc.order[sc.k]),
                                  states |-> <<>>])]
  /\ UNCHANGED <<tj, hs, cm, sh, mc>>

(* one call of step on the run under way *)
ScenarioStep ==
  /\ sc.stepping
  /\ Len(sc.runs[sc.k].states) < MaxPeriods
  /\ LET run == sc.runs[sc.k]
         st == step_from(np_random, run.sim, PatternSize(sc.pattern, Len(run.states) + 1))
     IN  sc' = [sc EXCEPT !.runs[sc.k] = [sim |-> st.sim,
                                          states |-> Append(run.states, st.state)]]
  /\ np_random' = np_random_after_step(np_random)
  /\ UNCHANGED <<tj, hs, cm, sh, mc>>

(* the run is over *)
ScenarioFinish ==
  /\ sc.stepping
  /\ Len(sc.runs[sc.k].states) = MaxPeriods
  /\ sc' = [sc EXCEPT !.stepping = FALSE, !.k = @ + 1]
  /\ UNCHANGED <<tj, hs, cm, np_random, sh, mc>>

NextScenario == ScenarioConstruct \/ ScenarioStep \/ ScenarioFinish

SpecScenario == InitScenario /\ [][NextScenario]_vars

(* the states of the run with, and of the run without, the scenario *)
RunOf(kind) == sc.runs[CHOOSE i \in 1..Len(sc.runs) : sc.order[i] = kind].states

BothRuns == Len(sc.runs) = 2

(* the periods both runs have been through *)
ComparedPeriods == 1..Min(Len(RunOf("None")), Len(RunOf("flash_crash")))

(* a is r times b, to a hundredth of b *)
RatioIs(a, b, num, den) == Abs(a * den - b * num) * 100 <= Abs(b * num)

(* C5: with and without flash_crash under the same seed and order sizes, in
   periods 1 to 10 volatility, spread and volume of the crash run are 10, 5
   and 0.3 times those of the plain run, and from period 11 on they are
   equal again *)
C5_FlashCrashRatios ==
  BothRuns =>
    \A t \in ComparedPeriods :
      LET plain == RunOf("None")[t]
          crash == RunOf("flash_crash")[t]
      IN  IF t <= FlashCrash.duration
          THEN /\ RatioIs(crash.volatility, plain.volatility, 10, 1)
               /\ RatioIs(spread(crash), spread(plain), 5, 1)
               /\ RatioIs(crash.volume, plain.volume, 3, 10)
          ELSE /\ crash.volatility = plain.volatility
               /\ spread(crash) = spread(plain)
               /\ crash.volume = plain.volume

---------------------------------------------------------------------------
(* SpecSim: two MarketSimulator objects in one process, constructed,        *)
(* injected and stepped in any order.  Next to each simulator the model     *)
(* keeps what the same calls give a simulator that draws from a generator   *)
(* of its own, seeded with the simulator's seed.                            *)

MaxSimSteps == 2

SimSeeds == {42, 43}

(* the first simulator is the one under observation, the second is the
   other simulator of the process: its order sizes and scenario do not
   change what it draws *)
SimSizes(i) == IF i = 1 THEN {RZero, RInt(500)} ELSE {RZero}

SimKinds(i) == IF i = 1 THEN {"flash_crash", "momentum", "none"} ELSE {}

InitSim ==
  /\ tj = TrajIdle
  /\ hs = HestonIdle
  /\ cm = CostIdle
  /\ sc = ScenarioIdle
  /\ \E e \in EntropySeeds : np_random = np_random_seed(e)
  /\ sh = <<NoSlot, NoSlot>>
  /\ mc = MCIdle

(* MarketSimulator(seed=seed) *)
SimConstruct(i, seed) ==
  /\ ~sh[i].built
  /\ np_random' = np_random_seed(seed)
  /\ sh' = [sh EXCEPT ![i] = [built |-> TRUE, seed |-> seed, sim |-> DefaultSimulator,
                              states |-> <<>>, alone |-> DefaultSimulator,
                              alone_states |-> <<>>, own_draws |-> 0, injected |-> FALSE]]
  /\ UNCHANGED <<tj, hs, cm, sc, mc>>

(* inject_scenario(kind), once for each simulator *)
SimInject(i, kind) ==
  /\ sh[i].built
  /\ ~sh[i].injected
  /\ sh' = [sh EXCEPT ![i].sim = inject_scenario(@, kind),
                      ![i].alone = inject_scenario(@, kind),
                      ![i].injected = TRUE]
  /\ UNCHANGED <<tj, hs, cm, sc, np_random, mc>>

(* step(external_order_size=size) *)
SimStep(i, size) ==
  /\ sh[i].built
  /\ Len(sh[i].states) < MaxSimSteps
  /\ LET st == step_from(np_random, sh[i].sim, size)
         own == step_from([seed |-> sh[i].seed, pos |-> sh[i].own_draws], sh[i].alone, size)
     IN  sh' = [sh EXCEPT ![i].sim = st.sim,
                          ![i].states = Append(@, st.state),
                          ![i].alone = own.sim,
                          ![i].alone_states = Append(@, own.state),
                          ![i].own_draws = @ + 2]
  /\ np_random' = np_random_after_step(np_random)
  /\ UNCHANGED <<tj, hs, cm, sc, mc>>

NextSim ==
  \E i \in 1..2 :
    \/ \E seed \in SimSeeds : SimConstruct(i, seed)
    \/ \E kind \in SimKinds(i) : SimInject(i, kind)
    \/ \E size \in SimSizes(i) : SimStep(i, size)

SpecSim == InitSim /\ [][NextSim]_vars

(* C4: the MarketStates a simulator produces depend only on its seed and on
   the calls made on it, also when another simulator is constructed or
   stepped in between: they are the states it produces from a random stream
   of its own *)
C4_NoSharedStream == \A i \in 1..2 : sh[i].built => sh[i].states = sh[i].alone_states

---------------------------------------------------------------------------
(* SpecMC: one call of run_monte_carlo(strategies, n_simulations, scenario) *)
(* on a MonteCarloSimulator, trial by trial and period by period.  trials   *)
(* lists what every call of run_single_simulation derived, drew and         *)
(* returned, in the order of the calls.                                     *)

MaxSimulations == 2

MaxExecutionPeriods == 2

Strategy(name, urgency) == [name |-> name, urgency |-> urgency]

Batches ==
  {<<Strategy("Naive", DefaultUrgency), Strategy("TWAP", DefaultUrgency),
     Strategy("VWAP", DefaultUrgency), Strategy("Almgren-Chriss", DefaultUrgency)>>,
   <<Strategy("TWAP", DefaultUrgency), Strategy("Naive", DefaultUrgency),
     Strategy("TWAP", DefaultUrgency)>>,
   <<Strategy("Almgren-Chriss", DefaultUrgency), Strategy("Almgren-Chriss", RInt(1))>>,
   <<Strategy("VWAP", DefaultUrgency), Strategy("TWAP", DefaultUrgency)>>}

MCOrderSizes == {0, 600, 1000}

MCScenarios == {"None", "flash_crash"}

InitMC ==
  /\ tj = TrajIdle
  /\ hs = HestonIdle
  /\ cm = CostIdle
  /\ sc = ScenarioIdle
  /\ sh = SimIdle
  /\ \E e \in EntropySeeds : np_random = np_random_seed(e)
  /\ \E strategies \in Batches, n \in 1..MaxSimulations, scenario \in MCScenarios,
        order_size \in MCOrderSizes, T \in 1..MaxExecutionPeriods :
       mc = [config |-> MonteCarloConfig(order_size, T), strategies |-> strategies,
             n_simulations |-> n, scenario |-> scenario, k |-> 1, all_results |-> <<>>,
             costs_bps |-> <<>>, results_by_strategy |-> EmptyDict, pc |-> "running",
             returned |-> NoMapping, trial |-> NoTrial, trials |-> <<>>]

(* run_single_simulation(strategy, sim_id, scenario) up to the loop of
   execute: the seed, the perturbed parameters, the simulator and its
   scenario, the arrival price and the trajectory *)
MCStartTrial ==
  /\ mc.pc = "running"
  /\ mc.k <= Len(mc.strategies)
  /\ ~mc.trial.active
  /\ Len(mc.all_results) < mc.n_simulations
  /\ LET sim_id == Len(mc.all_results)
         market_params == perturb_market_params(mc.config, trial_seed(sim_id))
         market_sim == with_scenario(simulator_of(market_params), mc.scenario)
     IN  /\ np_random' = simulator_seeding(np_random, market_params.seed)
         /\ mc' = [mc EXCEPT
                     !.trial = [active |-> TRUE, simulation_id |-> sim_id,
                                market_params |-> market_params, market_sim |-> market_sim,
                                arrival_price |-> market_sim.price,
                                trajectory |->
                                  generate_trajectory(mc.strategies[mc.k],
                                                      RInt(mc.config.order_size),
                                                      mc.config.execution_periods),
                                states |-> <<>>, draws |-> <<>>]]
  /\ UNCHANGED <<tj, hs, cm, sc, sh>>

(* one pass of the loop of execute: one step with the next size of the
   trajectory *)
MCStep ==
  /\ mc.pc = "running"
  /\ mc.trial.active
  /\ Len(mc.trial.states) < Len(mc.trial.trajectory)
  /\ LET st == step_from(np_random, mc.trial.market_sim,
                         next_size(mc.trial.trajectory, mc.trial.states))
     IN  mc' = [mc EXCEPT !.trial.market_sim = st.sim,
                          !.trial.states = Append(@, st.state),
                          !.trial.draws = @ \o draws_of_step(np_random)]
  /\ np_random' = np_random_after_step(np_random)
  /\ UNCHANGED <<tj, hs, cm, sc, sh>>

(* the rest of execute and of the pass over sim_id: the ExecutionResult and
   the two appends *)
MCFinishTrial ==
  /\ mc.pc = "running"
  /\ mc.trial.active
  /\ Len(mc.trial.states) = Len(mc.trial.trajectory)
  /\ LET result == execution_result(mc.strategies[mc.k], mc.trial.trajectory,
                                    mc.trial.states, mc.trial.arrival_price,
                                    RInt(mc.config.order_size), impact_model_of(mc.config),
                                    mc.trial.simulation_id)
         notional == Notional(result.arrival_price, RInt(mc.config.order_size))
     IN  mc' = [mc EXCEPT
                  !.trial = NoTrial,
                  !.all_results = Append(@, result),
                  !.costs_bps = Append(@, total_bps(result.costs, notional)),
                  !.trials = Append(@, [strategy |-> mc.strategies[mc.k],
                                       simulation_id |-> mc.trial.simulation_id,
                                       seed |-> mc.trial.market_params.seed,
                                       market_params |-> mc.trial.market_params,
                                       draws |-> mc.trial.draws, result |-> result])]
  /\ UNCHANGED <<tj, hs, cm, sc, sh, np_random>>

(* the aggregation of the strategy whose trials are over; it raises when a
   notional is 0 *)
MCAggregate ==
  /\ mc.pc = "running"
  /\ mc.k <= Len(mc.strategies)
  /\ Len(mc.all_results) = mc.n_simulations
  /\ LET agg == aggregate(mc.config, mc.strategies[mc.k], mc.n_simulations, mc.costs_bps,
                          mc.all_results)
     IN  mc' = IF agg.raised THEN [mc EXCEPT !.pc = "raised"]
               ELSE [mc EXCEPT
                       !.results_by_strategy = DictSet(@, mc.strategies[mc.k].name,
                                                       agg.value),
                       !.k = @ + 1, !.all_results = <<>>, !.costs_bps = <<>>]
  /\ UNCHANGED <<tj, hs, cm, sc, sh, np_random>>

(* after the loop over the strategies: the pass against the TWAP benchmark *)
MCRiskAdjust ==
  /\ mc.pc = "running"
  /\ mc.k > Len(mc.strategies)
  /\ mc' = [mc EXCEPT !.results_by_strategy = risk_adjust(@), !.pc = "adjusted"]
  /\ UNCHANGED <<tj, hs, cm, sc, sh, np_random>>

(* return results_by_strategy *)
MCReturn ==
  /\ mc.pc = "adjusted"
  /\ mc' = [mc EXCEPT !.returned = mc.results_by_strategy, !.pc = "returned"]
  /\ UNCHANGED <<tj, hs, cm, sc, sh, np_random>>

NextMC ==
  MCStartTrial \/ MCStep \/ MCFinishTrial \/ MCAggregate \/ MCRiskAdjust \/ MCReturn

SpecMC == InitMC /\ [][NextMC]_vars

(* the calls of run_single_simulation that have returned *)
Trials == 1..Len(mc.trials)

(* the volatility and the volume of each period of a trial *)
RandomPath(result) ==
  [t \in 1..Len(result.market_states) |->
     <<result.market_states[t].volatility, result.market_states[t].volume>>]

(* C2: for every trial index i, any two strategies of the batch get the
   seed base_seed + i, the same perturbed volatility, spread and depth
   baselines and the same sequence of random draws, and so see the same
   volatility and volume in every period *)
C2_SameRandomPath ==
  \A a \in Trials, b \in Trials :
    mc.trials[a].simulation_id = mc.trials[b].simulation_id =>
      /\ mc.trials[a].seed = base_seed + mc.trials[a].simulation_id
      /\ mc.trials[b].seed = mc.trials[a].seed
      /\ mc.trials[b].market_params = mc.trials[a].market_params
      /\ mc.trials[b].draws = mc.trials[a].draws
      /\ RandomPath(mc.trials[b].result) = RandomPath(mc.trials[a].result)

C2_Witness ==
  \E a \in Trials, b \in Trials :
    /\ mc.trials[a].simulation_id = mc.trials[b].simulation_id
    /\ mc.trials[a].simulation_id >= 1
    /\ mc.trials[a].strategy.name # mc.trials[b].strategy.name
    /\ mc.trials[a].result.trajectory # mc.trials[b].result.trajectory
    /\ Len(mc.trials[a].draws) >= 4
    /\ \E t \in 1..Len(mc.trials[a].result.market_states) :
         mc.trials[a].result.market_states[t].volatility > 0

(* C3: two calls of run_single_simulation with the same strategy, trial
   index, scenario and configuration return equal ExecutionResults, whatever
   was run before or between them *)
C3_Determinism ==
  \A a \in Trials, b \in Trials :
    (/\ mc.trials[a].strategy = mc.trials[b].strategy
     /\ mc.trials[a].simulation_id = mc.trials[b].simulation_id)
      => mc.trials[a].result = mc.trials[b].result

C3_Witness ==
  \E a \in Trials, b \in Trials, c \in Trials :
    /\ a < c /\ c < b
    /\ mc.trials[a].strategy = mc.trials[b].strategy
    /\ mc.trials[a].simulation_id = mc.trials[b].simulation_id
    /\ mc.trials[c].strategy # mc.trials[a].strategy
    /\ mc.trials[c].seed # mc.trials[a].seed
    /\ total(mc.trials[b].result.costs) > 0
    /\ Len(mc.trials[b].result.market_states) >= 2

(* C6: when run_monte_carlo returns, with a strategy named TWAP in the
   batch every other strategy's risk_adjusted_savings times its std_cost is
   TWAP's mean_cost minus its own when its std_cost is positive, and the
   field is 0 when its std_cost is 0, for TWAP itself, and for everyone
   when no TWAP is in the batch; while strategies are still being run and
   aggregated the field is 0 everywhere and nothing is returned *)
C6_RiskAdjustedSavings ==
  /\ mc.pc = "running" =>
       /\ mc.returned = NoMapping
       /\ \A name \in DOMAIN mc.results_by_strategy :
            mc.results_by_strategy[name].risk_adjusted_savings = RZero
  /\ mc.pc = "returned" =>
       \A name \in DOMAIN mc.returned :
         IF "TWAP" \in DOMAIN mc.returned /\ name # "TWAP"
              /\ mc.returned[name].std_cost > 0
         THEN RMul(mc.returned[name].risk_adjusted_savings,
                   RInt(mc.returned[name].std_cost))
                = RSub(mc.returned["TWAP"].mean_cost, mc.returned[name].mean_cost)
         ELSE mc.returned[name].risk_adjusted_savings = RZero

C6_Witness ==
  /\ mc.pc = "returned"
  /\ "TWAP" \in DOMAIN mc.returned
  /\ \E name \in DOMAIN mc.returned \ {"TWAP"} :
       /\ mc.returned[name].std_cost > 0
       /\ mc.returned[name].risk_adjusted_savings # RZero
  /\ \E name \in DOMAIN mc.returned \ {"TWAP"} :
       mc.returned[name].mean_cost # mc.returned["TWAP"].mean_cost

(* C9: after run_monte_carlo every strategy's costs_bps and all_results
   have n_simulations entries in the order of the trial indices 0..n-1,
   costs_bps[i] is total_bps of trial i's costs on the notional of trial i's
   own arrival price, and mean_cost is the arithmetic mean of costs_bps *)
C9_TrialOrderAndMean ==
  mc.pc = "returned" =>
    \A name \in DOMAIN mc.returned :
      LET r == mc.returned[name]
      IN  /\ Len(r.costs_bps) = mc.n_simulations
          /\ Len(r.all_results) = mc.n_simulations
          /\ \A i \in 1..mc.n_simulations :
               /\ r.all_results[i].simulation_id = i - 1
               /\ r.all_results[i].strategy = name
               /\ \E a \in Trials : /\ mc.trials[a].result = r.all_results[i]
                                    /\ mc.trials[a].simulation_id = i - 1
               /\ r.costs_bps[i]
                    = total_bps(r.all_results[i].costs,
                                Notional(r.all_results[i].arrival_price,
                                         RInt(mc.config.order_size)))
          /\ RMul(r.mean_cost, RInt(mc.n_simulations)) = RInt(SumInts(r.costs_bps, 1))

C9_Witness ==
  /\ mc.pc = "returned"
  /\ mc.n_simulations >= 2
  /\ \E name \in DOMAIN mc.returned :
       /\ mc.returned[name].costs_bps[1] > 0
       /\ mc.returned[name].costs_bps[2] > mc.returned[name].costs_bps[1]
       /\ mc.returned[name].mean_cost.d = 2

(* C11: a ratio whose denominator is zero gives 0 and neither raises nor
   yields NaN: run_monte_carlo never raises, every trial's total_cost_bps is
   0 when its notional is 0, and no avg_participation is NaN *)
C11_ZeroDenominators ==
  /\ mc.pc # "raised"
  /\ \A a \in Trials :
       LET result == mc.trials[a].result
       IN  /\ result.metrics.avg_participation # NaN
           /\ Notional(result.arrival_price, RInt(mc.config.order_size)).n = 0
                => result.metrics.total_cost_bps = 0

---------------------------------------------------------------------------
(* Specification SpecBps: CostBreakdown.total and total_bps applied to a     *)
(* CostBreakdown and a notional; cm holds the object, the argument and the   *)
(* two values returned.  Costs are in 1/PriceScale dollars, notionals in     *)
(* dollars.                                                                  *)

BpsComponents == {0, 5000, 123456}

BpsNotionals == {RInt(-100), Rat(-1, 2), RZero, Rat(1, 2), RInt(100), RInt(60000)}

InitBps ==
  /\ tj = TrajIdle
  /\ hs = HestonIdle
  /\ np_random = RngIdle
  /\ sc = ScenarioIdle
  /\ sh = SimIdle
  /\ mc = MCIdle
  /\ \E s \in BpsComponents, t \in BpsComponents, p \in BpsComponents,
        o \in BpsComponents, a \in BpsComponents, notional \in BpsNotionals :
       cm = [costs |-> CostBreakdown(s, t, p, o, a), notional |-> notional,
             done |-> FALSE, total |-> 0, total_bps |-> 0]

(* costs.total and costs.total_bps(notional) *)
TotalBps ==
  /\ ~cm.done
  /\ cm' = [cm EXCEPT !.total = total(cm.costs),
                      !.total_bps = total_bps(cm.costs, cm.notional),
                      !.done = TRUE]
  /\ UNCHANGED <<tj, hs, np_random, sc, sh, mc>>

NextBps == TotalBps

SpecBps == InitBps /\ [][NextBps]_vars

(* C12: total is spread + temporary + permanent + adverse_selection, the
   same whatever the opportunity component; total_bps(notional) is
   total / notional * 10000 (rounded down to the grid of BpsScale) when
   notional > 0 and 0 when notional <= 0 *)
C12_TotalAndBps ==
  cm.done =>
    /\ cm.total = cm.costs.spread + cm.costs.temporary + cm.costs.permanent
                    + cm.costs.adverse_selection
    /\ cm.total = total(CostBreakdown(cm.costs.spread, cm.costs.temporary,
                                      cm.costs.permanent, 0, cm.costs.adverse_selection))
    /\ IF cm.notional.n > 0
       THEN /\ RLe(RMul(RInt(cm.total_bps), cm.notional), RInt(cm.total * BpsScale))
            /\ RLt(RInt(cm.total * BpsScale), RMul(RInt(cm.total_bps + 1), cm.notional))
       ELSE cm.total_bps = 0

(* a positive opportunity component beside a positive total and a positive
   notional *)
C12_Witness ==
  /\ cm.done
  /\ cm.costs.opportunity > 0
  /\ cm.total > 0
  /\ cm.notional.n > 0
  /\ cm.notional.d > 1
  /\ cm.total_bps > 0

---------------------------------------------------------------------------
(* The Almgren-Chriss trajectory on a finer grid.  The rational trajectory  *)
(* above carries np.sinh to 1/SinhScale, which is coarser than the          *)
(* differences between neighbouring periods of a 120-period trajectory.     *)
(* Here np.sinh is tabulated to 1/SinhFineScale for arguments up to 3 (the  *)
(* default urgency) and sizes are in 1/MilliShare shares.                   *)
(* SinhFineTable[k + 1] = sinh(k / 40) * 10^7                               *)

SinhFineScale == 10000000

MilliShare == 1000

SinhFineTable ==
  <<
     0, 250026, 500208, 750703, 1001668, 1253258, 1505631, 1758946,
     2013360, 2269032, 2526123, 2784793, 3045203, 3307516, 3571897, 3838511,
     4107523, 4379103, 4653420, 4930646, 5210953, 5494517, 5781516, 6072128,
     6366536, 6664923, 6967475, 7274383, 7585837, 7902033, 8223167, 8549442,
     8881060, 9218229, 9561160, 9910066, 10265167, 10626684, 10994843, 11369874,
     11752012, 12141495, 12538567, 12943476, 13356475, 13777822, 14207781, 14646620,
     15094614, 15552042, 16019191, 16496352, 16983824, 17481912, 17990926, 18511186,
     19043015, 19586747, 20142721, 20711285, 21292795, 21887613, 22496111, 23118670,
     23755680, 24407537, 25074650, 25757435, 26456319, 27171740, 27904144, 28653988,
     29421743, 30207887, 31012912, 31837321, 32681629, 33546365, 34432068, 35339292,
     36268604, 37220586, 38195831, 39194950, 40218567, 41267323, 42341871, 43442885,
     44571052, 45727077, 46911683, 48125611, 49369618, 50644483, 51951003, 53289993,
     54662292, 56068757, 57510266, 58987721, 60502045, 62054185, 63645111, 65275817,
     66947322, 68660672, 70416937, 72217215, 74062631, 75954339, 77893520, 79881388,
     81919184, 84008182, 86149688, 88345040, 90595611, 92902807, 95268070, 97692879,
     100178749 >>

(* np.sinh(x) * SinhFineScale for 0 <= x <= 3, linear between grid points *)
SinhFine(x) ==
  LET k  == (SinhGrid * x.n) \div x.d
      fn == SinhGrid * x.n - k * x.d
  IN  IF fn = 0 THEN SinhFineTable[k + 1]
      ELSE SinhFineTable[k + 1]
             + MulDiv(SinhFineTable[k + 2] - SinhFineTable[k + 1], fn, x.d)

(* AlmgrenChrissStrategy.generate_trajectory for a whole number of shares
   and a clamped urgency of at most 3 *)
AlmgrenChriss_fine_trajectory(self_urgency, total_size, T) ==
  LET urgency == ClampUrgency(self_urgency)
      kappa == RDiv(urgency, RInt(T))
      sinh_kappa_T == SinhFine(urgency)
      X(t) == MulDiv(total_size.n * MilliShare, SinhFine(RMul(kappa, RInt(T - t))),
                     sinh_kappa_T)
      before_last == [i \in 1..(T - 1) |-> Rat(Max(0, X(i - 1) - X(i)), MilliShare)]
      trajectory == Append(before_last, RSub(total_size, RSum(before_last)))
  IN  Rescale(trajectory, total_size, TRUE)

(* generate_trajectory of the strategy object, Almgren-Chriss on the finer
   grid *)
fine_trajectory(strategy, total_size, T) ==
  IF strategy.name = "Almgren-Chriss"
  THEN AlmgrenChriss_fine_trajectory(strategy.urgency, total_size, T)
  ELSE generate_trajectory(strategy, total_size, T)

---------------------------------------------------------------------------
(* Specification SpecProfile: the configured order (order_size shares over  *)
(* execution_periods periods) laid out by each strategy and then worked     *)
(* through period by period; tj.t counts the periods over and tj.executed   *)
(* is the cumulative quantity after them.                                   *)

config_order_size == 100000

config_execution_periods == 120

ProfileStrategies ==
  {Strategy("Naive", DefaultUrgency), Strategy("TWAP", DefaultUrgency),
   Strategy("VWAP", DefaultUrgency), Strategy("Almgren-Chriss", DefaultUrgency)}

InitProfile ==
  /\ hs = HestonIdle
  /\ cm = CostIdle
  /\ np_random = RngIdle
  /\ sc = ScenarioIdle
  /\ sh = SimIdle
  /\ mc = MCIdle
  /\ \E strategy \in ProfileStrategies :
       tj = [strategy |-> strategy, total_size |-> RInt(config_order_size),
             T |-> config_execution_periods, trajectory |-> NoTrajectory,
             done |-> FALSE, t |-> 0, executed |-> RZero]

(* trajectory = self.generate_trajectory(total_size, T) *)
ProfileGenerate ==
  /\ ~tj.done
  /\ tj' = [tj EXCEPT !.trajectory = fine_trajectory(tj.strategy, tj.total_size, tj.T),
                      !.done = TRUE]
  /\ UNCHANGED <<hs, cm, np_random, sc, sh, mc>>

(* one pass of "for n_t in trajectory": the next period's size is traded *)
ProfilePeriod ==
  /\ tj.done
  /\ tj.t < Len(tj.trajectory)
  /\ tj' = [tj EXCEPT !.t = @ + 1, !.executed = RAdd(@, tj.trajectory[tj.t + 1])]
  /\ UNCHANGED <<hs, cm, np_random, sc, sh, mc>>

NextProfile == ProfileGenerate \/ ProfilePeriod

SpecProfile == InitProfile /\ [][NextProfile]_vars

(* x < y for rationals >= 0, by whole parts and then by fractions, so that
   no product of a numerator and a denominator is formed *)
RLtWide(x, y) ==
  \/ x.n \div x.d < y.n \div y.d
  \/ /\ x.n \div x.d = y.n \div y.d
     /\ (x.n % x.d) * y.d < (y.n % y.d) * x.d

(* what TWAP has executed after t periods: t * total_size / T *)
TWAPExecuted == RMul(RInt(tj.t), RDiv(tj.total_size, RInt(tj.T)))

(* C14 as stated: for total size 100000 and horizon 120 the VWAP and the
   Almgren-Chriss (urgency 3) trajectories are strictly front-loaded
   relative to TWAP, i.e. after every period t < 120 the cumulative quantity
   exceeds TWAP's, and the Almgren-Chriss sizes decrease monotonically *)
C14_FrontLoaded ==
  (tj.done /\ tj.strategy.name \in {"VWAP", "Almgren-Chriss"}) =>
    /\ tj.t \in 1..(tj.T - 1) => RLtWide(TWAPExecuted, tj.executed)
    /\ tj.strategy.name = "Almgren-Chriss" =>
         \A i \in 1..(tj.T - 1) : RLt(tj.trajectory[i + 1], tj.trajectory[i])

(* C14 amended: the Almgren-Chriss trajectory (urgency 3) is strictly
   front-loaded relative to TWAP and its sizes decrease monotonically; the
   VWAP trajectory is a symmetric U: its cumulative quantity exceeds TWAP's
   after every period t < 60, equals it after period 60 and is below it
   after every period 60 < t < 120 *)
C14_FrontLoadedAmended ==
  tj.done =>
    /\ tj.strategy.name = "Almgren-Chriss" =>
         /\ tj.t \in 1..(tj.T - 1) => RLtWide(TWAPExecuted, tj.executed)
         /\ \A i \in 1..(tj.T - 1) : RLt(tj.trajectory[i + 1], tj.trajectory[i])
    /\ tj.strategy.name = "VWAP" =>
         /\ tj.t \in 1..59 => RLtWide(TWAPExecuted, tj.executed)
         /\ tj.t = 60 => tj.executed = TWAPExecuted
         /\ tj.t \in 61..(tj.T - 1) => RLtWide(tj.executed, TWAPExecuted)

(* VWAP behind TWAP one period before the end *)
C14_Witness ==
  /\ tj.done
  /\ tj.strategy.name = "VWAP"
  /\ tj.T = config_execution_periods
  /\ tj.total_size = RInt(config_order_size)
  /\ tj.t = tj.T - 1
  /\ RLtWide(tj.executed, TWAPExecuted)

---------------------------------------------------------------------------
(* Specification SpecLife: the life of one MarketSimulator(seed=base_seed):   *)
(* calls                                                                     *)
(* of inject_scenario, step and reset.  sc holds the object, the kind last   *)
(* injected, the number of steps since (since) and in all (steps), and what  *)
(* the last call of step saw and returned.  Injections come within the       *)
(* first MaxInjectAt steps, momentum only before the first step; a second    *)
(* injection is a flash crash or a drought; calls with an identifier that   *)
(* is none of the three (arg) come at any of these times; steps go on until MaxAfter *)
(* steps past the scenario's duration; one reset, within the first           *)
(* MaxResetAt steps.                                                         *)

MaxInjectAt == 11

MaxAfter == 2

MaxResetAt == 3

NoState == [time |-> 0]

(* the order traded in the step after `steps` steps: none, a buy, none, a sell *)
LifeSize(steps) ==
  IF steps % 4 = 1 THEN RInt(500) ELSE IF steps % 4 = 3 THEN RInt(-300) ELSE RZero

InitLife ==
  /\ tj = TrajIdle
  /\ hs = HestonIdle
  /\ cm = CostIdle
  /\ sh = SimIdle
  /\ mc = MCIdle
  /\ np_random = simulator_seeding(np_random_seed(7), base_seed)
  /\ sc = [sim |-> DefaultSimulator, kind |-> "None", since |-> 0, steps |-> 0,
           injections |-> 0, resets |-> 0, state |-> NoState,
           before |-> DefaultSimulator, drift |-> 0, size |-> RZero, last |-> "init",
           arg |-> ""]

(* sim.inject_scenario(kind) *)
LifeInject(kind) ==
  /\ sc.resets = 0
  /\ sc.steps <= MaxInjectAt
  /\ \/ sc.injections = 0 /\ (kind = "momentum" => sc.steps = 0)
     \/ sc.injections = 1 /\ kind # "momentum"
  /\ sc' = [sc EXCEPT !.sim = inject_scenario(sc.sim, kind), !.kind = kind, !.since = 0,
                      !.injections = @ + 1, !.last = "inject", !.before = sc.sim,
                      !.arg = kind]
  /\ UNCHANGED <<tj, hs, cm, np_random, sh, mc>>

(* sim.inject_scenario(other), other none of the three kinds *)
LifeInjectOther(other) ==
  /\ sc.steps <= MaxInjectAt
  /\ sc.last # "inject_other"
  /\ sc' = [sc EXCEPT !.sim = inject_scenario(sc.sim, other), !.before = sc.sim,
                      !.last = "inject_other", !.arg = other]
  /\ UNCHANGED <<tj, hs, cm, np_random, sh, mc>>

(* sim.step(external_order_size = LifeSize(steps)) *)
LifeStep ==
  /\ sc.since < Get(sc.sim.scenario, "duration", 0) + MaxAfter
  /\ sc.kind = "None" => sc.steps < MaxInjectAt + MaxAfter
  /\ LET st == step_from(np_random, sc.sim, LifeSize(sc.steps))
     IN  sc' = [sc EXCEPT !.sim = st.sim, !.state = st.state, !.before = sc.sim,
                          !.drift = step_drift(sc.sim), !.size = LifeSize(sc.steps),
                          !.since = @ + 1, !.steps = @ + 1, !.last = "step",
                          !.arg = ""]
  /\ np_random' = np_random_after_step(np_random)
  /\ UNCHANGED <<tj, hs, cm, sh, mc>>

(* sim.reset() *)
LifeReset ==
  /\ sc.resets = 0
  /\ sc.steps \in 1..MaxResetAt
  /\ sc' = [sc EXCEPT !.sim = sim_reset(sc.sim), !.before = sc.sim, !.kind = "None",
                      !.since = 0, !.resets = @ + 1, !.last = "reset", !.arg = ""]
  /\ UNCHANGED <<tj, hs, cm, np_random, sh, mc>>

NextLife ==
  \/ \E kind \in {"flash_crash", "momentum", "liquidity_drought"} : LifeInject(kind)
  \/ \E other \in {"none", "unknown"} : LifeInjectOther(other)
  \/ LifeStep
  \/ LifeReset

SpecLife == InitLife /\ [][NextLife]_vars

(* the durations and multipliers (in units of 1/MultScale) of the three
   kinds of scenario *)
KindDuration(kind) ==
  CASE kind = "flash_crash" -> 10
    [] kind = "liquidity_drought" -> 30
    [] kind = "momentum" -> 9999
    [] OTHER -> 0

KindMultipliers(kind) ==
  CASE kind = "flash_crash" -> [vol |-> 100, spread |-> 50, volume |-> 3]
    [] kind = "liquidity_drought" -> [vol |-> 10, spread |-> 20, volume |-> 1]
    [] OTHER -> [vol |-> 10, spread |-> 10, volume |-> 10]

(* whether the last step was one of the first D steps after an injection *)
WithinDuration == sc.kind # "None" /\ sc.since <= KindDuration(sc.kind)

(* the volatility, volume and (when nothing is traded) spread of the state
   the last step returned are the seasonal ones times m *)
StateHasMultipliers(m) ==
  LET seasonal_volume == intraday_volume_pattern(sc.sim, sc.sim.current_minute % DtDen)
      seasonal_spread == intraday_spread_pattern(sc.sim, sc.sim.current_minute % DtDen)
      base_spread == MulDiv(seasonal_spread, m.spread, MultScale)
  IN  /\ sc.state.volume = MulDiv(seasonal_volume, m.volume, MultScale)
      /\ sc.state.volatility = MulDiv(ISqrt(sc.sim.vol_model.v), m.vol, MultScale)
      /\ sc.size = RZero =>
           spread(sc.state)
             = base_spread + MulDiv(3 * base_spread, sc.state.volatility,
                                    2 * sc.sim.vol_per_minute)

(* C15: after inject_scenario(kind) the scenario's multipliers are applied
   on exactly the next D calls of step (D = 10, 30, 9999 for flash_crash,
   liquidity_drought, momentum) and on no later step unless a scenario is
   injected again; the remaining duration decreases by one on each of those
   steps and is never negative *)
C15_MultipliersForDuration ==
  /\ sc.sim.scenario_duration >= 0
  /\ sc.last = "inject" => sc.sim.scenario_duration = KindDuration(sc.kind)
  /\ sc.last = "step" =>
       /\ StateHasMultipliers(IF WithinDuration THEN KindMultipliers(sc.kind)
                              ELSE KindMultipliers("None"))
       /\ sc.sim.scenario_duration
            = sc.before.scenario_duration - (IF WithinDuration THEN 1 ELSE 0)
       /\ sc.sim.scenario_duration = Max(KindDuration(sc.kind) - sc.since, 0)

(* the first step after a flash crash ran out, the crash having been
   injected into a drought that was under way *)
C15_Witness ==
  /\ sc.last = "step"
  /\ sc.kind = "flash_crash"
  /\ sc.injections = 2
  /\ sc.since = 11
  /\ sc.steps > sc.since
  /\ sc.sim.scenario.type = "flash_crash"
  /\ sc.sim.scenario_duration = 0
  /\ sc.state.volume = intraday_volume_pattern(sc.sim, sc.sim.current_minute % DtDen)

(* C18: after any sequence of step and inject_scenario calls, reset() puts
   the simulator back to its construction-time values: price S0, time and
   minute counter 0, a fresh variance process at its initial variance, empty
   classifier windows, no scenario and remaining duration 0 *)
C18_ResetRestores ==
  sc.last = "reset" =>
    /\ sc.sim = DefaultSimulator
    /\ sc.sim.price = sc.sim.S0
    /\ sc.sim.current_time = 0
    /\ sc.sim.current_minute = 0
    /\ sc.sim.vol_model.v = sc.sim.vol_per_minute * sc.sim.vol_per_minute
    /\ sc.sim.regime_detector.vol_history = <<>>
    /\ sc.sim.regime_detector.spread_history = <<>>
    /\ sc.sim.regime_detector.volume_history = <<>>
    /\ sc.sim.scenario = NoScenario
    /\ sc.sim.scenario_duration = 0

(* a reset of a simulator that had moved in every respect *)
C18_Witness ==
  /\ sc.last = "reset"
  /\ sc.before.price # sc.before.S0
  /\ sc.before.current_minute >= 2
  /\ sc.before.vol_model.v # sc.before.vol_per_minute * sc.before.vol_per_minute
  /\ Len(sc.before.regime_detector.vol_history) >= 2
  /\ sc.before.scenario.type = "liquidity_drought"
  /\ sc.before.scenario_duration > 0

(* C19: the drift a call of step adds to the price is non-zero only for an
   active momentum scenario (injected and with remaining duration > 0 when
   the step starts), where it is 0.0005 * price * dt; otherwise it is 0 *)
C19_DriftOnlyActiveMomentum ==
  sc.last = "step" =>
    IF sc.before.scenario.type = "momentum" /\ sc.before.scenario_duration > 0
    THEN sc.drift = MulDiv(sc.before.price, 5, 10000 * DtDen) /\ sc.drift # 0
    ELSE sc.drift = 0

---------------------------------------------------------------------------
(* Specification SpecRegime: one RegimeDetector() with the default          *)
(* arguments and its calls of classify.  Each axis is fed one of a few      *)
(* series of observations; hs holds the object, everything it was given so  *)
(* far (seen) and the Regime the last call returned.                        *)

MaxCalls == 26

(* the n-th observation of a series *)
Observation(series, n) ==
  CASE series = "rising" -> 10 * n
    [] series = "falling" -> 1000 - 10 * n
    [] series = "flat" -> 50
    [] series = "zigzag" -> IF n % 2 = 1 THEN 100 + n ELSE 100 - n
    [] OTHER -> IF n <= 6 THEN 0 ELSE 1000 - 10 * n

Series == {"rising", "falling", "flat", "zigzag", "zeros_then_falling"}

NoRegime == Regime("", "", "")

InitRegime ==
  /\ tj = TrajIdle
  /\ cm = CostIdle
  /\ np_random = RngIdle
  /\ sc = ScenarioIdle
  /\ sh = SimIdle
  /\ mc = MCIdle
  /\ \E v \in Series, s \in Series, q \in Series :
       hs = [rd |-> RegimeDetector, series |-> [vol |-> v, spread |-> s, volume |-> q],
             seen |-> [vol |-> <<>>, spread |-> <<>>, volume |-> <<>>],
             calls |-> 0, regime |-> NoRegime]

(* rd.classify(volatility, spread, volume) with the next observations *)
RegimeClassify ==
  /\ hs.calls < MaxCalls
  /\ LET n == hs.calls + 1
         volatility == Observation(hs.series.vol, n)
         spread_ratio == Observation(hs.series.spread, n)
         volume == Observation(hs.series.volume, n)
         cl == classify(hs.rd, volatility, spread_ratio, volume)
     IN  hs' = [hs EXCEPT !.rd = cl.rd, !.regime = cl.regime, !.calls = n,
                          !.seen = [vol |-> Append(@.vol, volatility),
                                    spread |-> Append(@.spread, spread_ratio),
                                    volume |-> Append(@.volume, volume)]]
  /\ UNCHANGED <<tj, cm, np_random, sc, sh, mc>>

NextRegime == RegimeClassify

SpecRegime == InitRegime /\ [][NextRegime]_vars

(* the last 20 of the observations seen on an axis, the newest included *)
TrailingWindow(seen) == SubSeq(seen, Max(1, Len(seen) - 19), Len(seen))

(* where the newest observation ranks in its trailing window: -1 below the
   25th percentile, 1 above the 75th, 0 between *)
RankLevel(seen) ==
  LET percentile == percentileofscore(TrailingWindow(seen), seen[Len(seen)])
  IN  IF RLt(percentile, RInt(25)) THEN -1
      ELSE IF RLt(RInt(75), percentile) THEN 1 ELSE 0

(* the level a label stands for, in any axis' vocabulary *)
LabelLevel(label) ==
  IF label \in {"low", "tight", "thin"} THEN -1
  ELSE IF label \in {"high", "wide", "heavy"} THEN 1 ELSE 0

(* C16: with the default thresholds and at least 5 observations, each axis
   is binned with its own vocabulary: volatility low/medium/high, spread
   tight/normal/wide, volume thin/normal/heavy, for a percentile below 25 /
   from 25 to 75 / above 75; the spread and volume labels are never low,
   medium or high *)
C16_AxisVocabulary ==
  hs.calls >= 5 =>
    /\ hs.regime.volatility
         = <<"low", "medium", "high">>[RankLevel(hs.seen.vol) + 2]
    /\ hs.regime.spread
         = <<"tight", "normal", "wide">>[RankLevel(hs.seen.spread) + 2]
    /\ hs.regime.volume
         = <<"thin", "normal", "heavy">>[RankLevel(hs.seen.volume) + 2]
    /\ hs.regime.spread \notin {"low", "medium", "high"}
    /\ hs.regime.volume \notin {"low", "medium", "high"}

(* C17: classify appends the observation first and returns the default
   Regime (medium, normal, normal) on each of the first four calls of a
   fresh classifier; from the fifth call on each axis ranks the new value
   inside its own trailing window of the most recent 20 observations *)
C17_DefaultThenTrailingWindow ==
  /\ hs.rd.vol_history = TrailingWindow(hs.seen.vol)
  /\ hs.rd.spread_history = TrailingWindow(hs.seen.spread)
  /\ hs.rd.volume_history = TrailingWindow(hs.seen.volume)
  /\ hs.calls \in 1..4 => hs.regime = Regime("medium", "normal", "normal")
  /\ hs.calls >= 5 =>
       /\ LabelLevel(hs.regime.volatility) = RankLevel(hs.seen.vol)
       /\ LabelLevel(hs.regime.spread) = RankLevel(hs.seen.spread)
       /\ LabelLevel(hs.regime.volume) = RankLevel(hs.seen.volume)

(* more than 20 observations, the newest of which ranks low in its window
   and would not rank low among all the observations *)
C17_Witness ==
  /\ hs.calls > 20
  /\ Len(hs.rd.vol_history) = 20
  /\ LabelLevel(hs.regime.volatility) = -1
  /\ ~RLt(percentileofscore(hs.seen.vol, hs.seen.vol[hs.calls]), RInt(25))
  /\ LabelLevel(hs.regime.spread) = 1

(* the states a simulator built from the trial's parameters and seeded with
   the trial's seed returns when it is stepped once per entry of the
   trajectory, first entry first *)
ReplayedStates(trial) ==
  LET trajectory == trial.result.trajectory
      f[t \in 0..Len(trajectory)] ==
        IF t = 0
        THEN [sim |-> with_scenario(simulator_of(trial.market_params), mc.scenario),
              states |-> <<>>]
        ELSE LET st == sim_step(f[t - 1].sim, trajectory[t],
                                StdNormal(trial.seed, 2 * t - 2),
                                StdNormal(trial.seed, 2 * t - 1))
             IN  [sim |-> st.sim, states |-> Append(f[t - 1].states, st.state)]
  IN  f[Len(trajectory)].states

(* C20: execute records the arrival price before any step and then steps
   the simulator once per trajectory entry, in order, with that period's
   size: market_states is as long as the trajectory (the horizon),
   market_states[t] is the state produced by trading trajectory[t], and
   arrival_price is the price before the first trade *)
C20_OneStepPerEntry ==
  /\ mc.trial.active =>
       /\ Len(mc.trial.states) <= Len(mc.trial.trajectory)
       /\ mc.trial.arrival_price = mc.trial.market_params.S0
       /\ Len(mc.trial.states) = 0 => mc.trial.market_sim.price = mc.trial.arrival_price
  /\ \A a \in Trials :
       LET result == mc.trials[a].result
       IN  /\ Len(result.trajectory) = mc.config.execution_periods
           /\ Len(result.market_states) = Len(result.trajectory)
           /\ \A t \in 1..Len(result.market_states) : result.market_states[t].time = t
           /\ result.market_states = ReplayedStates(mc.trials[a])
           /\ result.arrival_price = mc.trials[a].market_params.S0
           /\ result.metrics.arrival_price = result.arrival_price

(* a trial of two periods with different sizes, whose first trade moved the
   price away from the arrival price *)
C20_Witness ==
  \E a \in Trials :
    LET result == mc.trials[a].result
    IN  /\ Len(result.trajectory) = 2
        /\ result.trajectory[1] # result.trajectory[2]
        /\ result.trajectory[2].n > 0
        /\ result.market_states[1].mid_price # result.arrival_price
        /\ result.market_states[2].mid_price # result.market_states[1].mid_price

(* the whole shares filled in period i and the price they are filled at *)
WholeShares(i) == Abs(cm.trajectory[i].n) \div cm.trajectory[i].d

FillPrice(i) == IF cm.trajectory[i].n > 0 THEN cm.states[i].ask ELSE cm.states[i].bid

(* the average fill price over the whole shares, the arrival price when
   there is none *)
AverageFillPrice ==
  LET periods == 1..ZipLen(cm.trajectory, cm.states)
      count == SumInts([i \in periods |-> WholeShares(i)], 1)
      paid == SumInts([i \in periods |-> WholeShares(i) * FillPrice(i)], 1)
  IN  IF count > 0 THEN Rat(paid, count) ELSE RInt(cm.arrival_price)

(* C21: the realised execution price of compute_costs is the average over
   whole shares of the fill prices, floor(|size_t|) shares at the ask of
   period t for a buy and at its bid for a sell; when no whole share is
   traded in any period it is the arrival price, and the opportunity cost
   is 0 *)
C21_WholeShareAverage ==
  (cm.done /\ ~cm.result.raised /\ RSum(cm.trajectory).n # 0) =>
    LET total_shares == RSum(cm.trajectory)
        shortfall == RMulFloor(RSub(AverageFillPrice, RInt(cm.arrival_price)),
                               total_shares)
    IN  /\ cm.result.costs.opportunity = Max(0, shortfall)
        /\ (\A i \in 1..ZipLen(cm.trajectory, cm.states) : WholeShares(i) = 0)
             => /\ AverageFillPrice = RInt(cm.arrival_price)
                /\ cm.result.costs.opportunity = 0

(* two whole shares of a buy of 2.5 filled above the arrival price, and a
   sale of half a share at another price, which fills nothing *)
C21_Witness ==
  /\ cm.done
  /\ Len(cm.trajectory) = 2
  /\ Len(cm.states) = 2
  /\ cm.trajectory[1] = Rat(5, 2)
  /\ cm.trajectory[2] = Rat(-1, 2)
  /\ cm.states[1].ask # cm.states[2].bid
  /\ cm.states[1].ask > cm.arrival_price
  /\ cm.result.costs.opportunity > 0

(* the variance of a trial's simulator after each period, when the first
   draw of every step is the variance increment: the draws 1, 3, 5, .. of
   the trial *)
VarianceFromOddDraws(trial) ==
  LET vol_model == simulator_of(trial.market_params).vol_model
      f[t \in 0..Len(trial.result.market_states)] ==
        IF t = 0 THEN vol_model.v
        ELSE HestonNewV([vol_model EXCEPT !.v = f[t - 1]],
                        NormalSqrtDt(trial.draws[2 * t - 1]))
  IN  f

(* C22: every call of step takes exactly two draws from np.random, the
   variance increment first and the price increment second, whatever the
   order size and the scenario; so in a trial the draws, and the volatility
   and the volume of each period, do not depend on the trajectory traded *)
C22_TwoDrawsPerStep ==
  /\ mc.trial.active =>
       /\ np_random = [seed |-> mc.trial.market_params.seed,
                       pos |-> 2 * Len(mc.trial.states)]
       /\ Len(mc.trial.draws) = 2 * Len(mc.trial.states)
  /\ \A a \in Trials :
       LET trial == mc.trials[a]
           states == trial.result.market_states
           m == IF mc.scenario = "flash_crash" THEN FlashCrash
                ELSE [vol_multiplier |-> MultScale, volume_multiplier |-> MultScale]
       IN  /\ trial.draws = [k \in 1..(2 * Len(states)) |-> StdNormal(trial.seed, k - 1)]
           /\ \A t \in 1..Len(states) :
                /\ states[t].volatility
                     = MulDiv(ISqrt(VarianceFromOddDraws(trial)[t]), m.vol_multiplier,
                              MultScale)
                /\ states[t].volume
                     = MulDiv(intraday_volume_pattern(simulator_of(trial.market_params),
                                                      t % DtDen),
                              m.volume_multiplier, MultScale)
  /\ \A a \in Trials, b \in Trials :
       (/\ mc.trials[a].simulation_id = mc.trials[b].simulation_id
        /\ Len(mc.trials[a].result.market_states)
             = Len(mc.trials[b].result.market_states))
         => \A t \in 1..Len(mc.trials[a].result.market_states) :
              /\ mc.trials[a].result.market_states[t].volatility
                   = mc.trials[b].result.market_states[t].volatility
              /\ mc.trials[a].result.market_states[t].volume
                   = mc.trials[b].result.market_states[t].volume

(* two trials of the same index that traded different sizes in the first
   period of a flash crash and saw the same non-zero volatilities and other
   prices *)
C22_Witness ==
  \E a \in Trials, b \in Trials :
    /\ mc.scenario = "flash_crash"
    /\ mc.trials[a].simulation_id = mc.trials[b].simulation_id
    /\ Len(mc.trials[a].result.market_states) = 2
    /\ mc.trials[a].result.trajectory[1] # mc.trials[b].result.trajectory[1]
    /\ mc.trials[a].draws[1] # mc.trials[a].draws[2]
    /\ mc.trials[a].result.market_states[2].volatility > 0
    /\ mc.trials[a].result.market_states[2].volatility
         # mc.trials[a].result.market_states[1].volatility
    /\ mc.trials[a].result.market_states[1].mid_price
         # mc.trials[b].result.market_states[1].mid_price

(* C23: inject_scenario with an identifier that is none of flash_crash,
   momentum and liquidity_drought ('none' included) leaves the scenario and
   the remaining duration, and the rest of the simulator, as they were, an
   active scenario included; with one of the three it replaces the scenario
   by that kind's and sets the remaining duration to the kind's full
   duration, and changes nothing else *)
C23_InjectOtherOrReplace ==
  /\ sc.last = "inject_other" =>
       /\ sc.arg \notin {"flash_crash", "momentum", "liquidity_drought"}
       /\ sc.sim.scenario = sc.before.scenario
       /\ sc.sim.scenario_duration = sc.before.scenario_duration
       /\ sc.sim = sc.before
  /\ sc.last = "inject" =>
       /\ sc.sim.scenario.type = sc.arg
       /\ sc.sim.scenario.duration = KindDuration(sc.arg)
       /\ sc.sim.scenario_duration = KindDuration(sc.arg)
       /\ sc.sim = [sc.before EXCEPT !.scenario = sc.sim.scenario,
                                     !.scenario_duration = KindDuration(sc.arg)]

(* inject_scenario('none') while the drought that replaced a flash crash
   still has between 1 and 29 of its 30 periods to run *)
C23_Witness ==
  /\ sc.last = "inject_other"
  /\ sc.arg = "none"
  /\ sc.injections = 2
  /\ sc.sim.scenario.type = "liquidity_drought"
  /\ sc.sim.scenario_duration \in 1..29
  /\ sc.sim.price # sc.sim.S0

(* the place in the batch of the last strategy called name *)
LastNamed(name) ==
  CHOOSE k \in 1..Len(mc.strategies) :
    /\ mc.strategies[k].name = name
    /\ \A j \in (k + 1)..Len(mc.strategies) : mc.strategies[j].name # name

(* the results of the trials of the k-th strategy of the batch, in order *)
ResultsOf(k) ==
  [j \in 1..mc.n_simulations |-> mc.trials[(k - 1) * mc.n_simulations + j].result]

(* C24: the mapping run_monte_carlo returns has exactly one MonteCarloResults
   per distinct name of the batch; when strategies share a name the trials
   of each of them are run, and the entry under the name is the aggregate of
   the last of them *)
C24_OneEntryPerName ==
  mc.pc = "returned" =>
    /\ DOMAIN mc.returned = {mc.strategies[k].name : k \in 1..Len(mc.strategies)}
    /\ Len(mc.trials) = Len(mc.strategies) * mc.n_simulations
    /\ \A k \in 1..Len(mc.strategies), j \in 1..mc.n_simulations :
         LET trial == mc.trials[(k - 1) * mc.n_simulations + j]
         IN  /\ trial.strategy = mc.strategies[k]
             /\ trial.simulation_id = j - 1
             /\ trial.result.trajectory
                  = generate_trajectory(mc.strategies[k], RInt(mc.config.order_size),
                                        mc.config.execution_periods)
    /\ \A name \in DOMAIN mc.returned :
         LET k == LastNamed(name)
             agg == aggregate(mc.config, mc.strategies[k], mc.n_simulations,
                              mc.returned[name].costs_bps, ResultsOf(k))
         IN  /\ mc.returned[name].strategy = name
             /\ mc.returned[name].all_results = ResultsOf(k)
             /\ ~agg.raised
             /\ [mc.returned[name] EXCEPT !.risk_adjusted_savings = RZero] = agg.value

(* a returned call on two Almgren-Chriss strategies of different urgency
   whose trials of the same index traded different trajectories at
   different costs *)
C24_Witness ==
  /\ mc.pc = "returned"
  /\ Len(mc.strategies) = 2
  /\ mc.strategies[1].name = mc.strategies[2].name
  /\ mc.strategies[1].urgency # mc.strategies[2].urgency
  /\ mc.n_simulations = 2
  /\ Len(mc.trials) = 4
  /\ mc.trials[1].result.trajectory # mc.trials[3].result.trajectory
  /\ mc.trials[1].result.costs # mc.trials[3].result.costs
  /\ mc.returned["Almgren-Chriss"].all_results[1] = mc.trials[3].result

============================================================================
